---- MODULE Spec2Model ----
(***************************************************************************)
(* The interactive terminal controller of gh-deps                          *)
(* (src/internal/interactive/tui.go, the current variant of the file that  *)
(* starts at line 469): the bubbletea model, its Update handler and the    *)
(* commands (merge, rebase, refresh) Update launches.                      *)
(*                                                                         *)
(* Strings are sequences of one-character strings, so that len(), +=,      *)
(* strings.Split, strings.ToLower and strings.Contains are computed.       *)
(* Go slices are a header (backing array, length) over a heap of backing   *)
(* arrays, so that two slices over one array behave as they do in Go.      *)
(* Indices are 0-based as in the source; a sequence position is index + 1. *)
(* A PullRequest value is held as its key in the table PullRequests (the   *)
(* values are immutable), and PR(k) is the value.                          *)
(***************************************************************************)
EXTENDS Integers, Sequences, FiniteSets, Bags, TLC

\* Longest search query the model lets the user type.
MaxQueryLen == 1
\* Most refresh commands the model lets be in flight together.
MaxRefreshInFlight == 2
\* Longest search query typed where only the search is exercised.
MaxFilterQueryLen == 2
\* Most calls of the merge endpoint the line-prompt loop is followed through.
MaxMergeCalls == 2

VARIABLES
    heap,          \* backing arrays of the two slices: heap[1] is the array of m.prs, heap[2] the array of m.filtered when it has its own
    prs,           \* m.prs, a slice header [arr, len]
    filtered,      \* m.filtered, a slice header [arr, len]
    cursor,        \* m.cursor
    query,         \* m.query
    searchMode,    \* m.searchMode
    confirmMode,   \* m.confirmMode
    confirmingPR,  \* m.confirmingPR: <<>> is nil, <<pr>> points at a copy of pr
    confirmRebase, \* m.confirmRebase
    message,       \* m.message, a format and its argument
    messageType,   \* m.messageType
    width,         \* m.width
    height,        \* m.height
    merging,       \* m.merging
    refreshing,    \* m.refreshing
    rebasing,      \* m.rebasing
    done,          \* m.done
    cmds,          \* bag of the commands (tea.Cmd goroutines) launched and not yet consumed by Update
    catalog,       \* the pull requests the remote service knows (fixed during a run)
    runner         \* the line-prompt Runner.Run: where it stands, what it read and what it called

vars == <<heap, prs, filtered, cursor, query, searchMode, confirmMode, confirmingPR,
          confirmRebase, message, messageType, width, height, merging, refreshing,
          rebasing, done, cmds, catalog, runner>>

----------------------------------------------------------------------------
(* Strings *)

\* The characters the model uses, in ascending byte order.
Alphabet == <<" ", "-", "/", "1", "2", "3", "D", "V", "[", "]",
              "a", "b", "c", "d", "e", "g", "h", "i", "n", "o", "p", "r", "s", "t", "u", "v", "x">>

Ord(c) == CHOOSE i \in 1..Len(Alphabet) : Alphabet[i] = c

\* strings.ToLower on one character.
ToLowerChar(c) ==
    CASE c = "D" -> "d" [] c = "V" -> "v" [] c = "U" -> "u" [] c = "P" -> "p"
      [] c = "Q" -> "q" [] c = "Y" -> "y" [] c = "E" -> "e" [] c = "S" -> "s" [] OTHER -> c

ToLower(s) == [i \in 1..Len(s) |-> ToLowerChar(s[i])]

\* Go's < on strings: bytewise lexicographic order.
RECURSIVE StrLess(_, _)
StrLess(s, t) ==
    IF t = <<>> THEN FALSE
    ELSE IF s = <<>> THEN TRUE
    ELSE IF s[1] # t[1] THEN Ord(s[1]) < Ord(t[1])
    ELSE StrLess(Tail(s), Tail(t))

\* strings.Contains(s, sub)
Contains(s, sub) ==
    \E k \in 0..(Len(s) - Len(sub)) : SubSeq(s, k + 1, k + Len(sub)) = sub

\* strings.Split(s, sep) for a one-character separator.
RECURSIVE Split(_, _)
Split(s, sep) ==
    IF \A i \in 1..Len(s) : s[i] # sep THEN <<s>>
    ELSE LET i == CHOOSE j \in 1..Len(s) : s[j] = sep /\ \A k \in 1..(j - 1) : s[k] # sep
         IN  <<SubSeq(s, 1, i - 1)>> \o Split(SubSeq(s, i + 1, Len(s)), sep)

\* strings.Join(elems, sep)
RECURSIVE Join(_, _)
Join(elems, sep) ==
    IF elems = <<>> THEN <<>>
    ELSE IF Len(elems) = 1 THEN elems[1]
    ELSE elems[1] \o sep \o Join(Tail(elems), sep)

----------------------------------------------------------------------------
(* Pull requests *)

BotRenovate == <<"r", "e", "n", "o", "v", "a", "t", "e">>
BotDependabot == <<"d", "e", "p", "e", "n", "d", "a", "b", "o", "t">>
BotGitHubActions == <<"g", "i", "t", "h", "u", "b", "-", "a", "c", "t", "i", "o", "n", "s">>

MergeableStateMergeable == "MERGEABLE"
MergeableStateConflicting == "CONFLICTING"
MergeableStateUnknown == "UNKNOWN"

\* BotType.DisplayName
DisplayName(b) == b

\* BotType.SupportsRebase
SupportsRebase(b) == b = BotDependabot \/ b = BotRenovate

\* BotType.UsesCheckboxRebase
UsesCheckboxRebase(b) == b = BotRenovate

\* BotType.RebaseCommand: the comment text, "" when the bot has none.
RebaseCommand(b) == IF b = BotDependabot THEN "@dependabot rebase" ELSE ""

\* PullRequest.RepoName
RepoName(pr) ==
    LET parts == Split(pr.Repository, "/")
    IN  IF Len(parts) >= 2 THEN parts[2] ELSE pr.Repository

\* api.ParseRepository: TRUE when it returns no error.
ParseRepositoryOk(repository) == Len(Split(repository, "/")) = 2

\* The pull requests of the remote service: a dependabot PR with conflicts,
\* a mergeable renovate PR and a github-actions PR with conflicts.
PRa == [Repository |-> <<"o", "/", "a">>, Number |-> 1, Title |-> <<"u", "p">>,
        Body |-> <<>>, BotType |-> BotDependabot, Labels |-> <<>>,
        Version |-> <<"-">>, MergeableState |-> MergeableStateConflicting]
PRb == [Repository |-> <<"o", "/", "b">>, Number |-> 2, Title |-> <<"u", "p">>,
        Body |-> <<>>, BotType |-> BotRenovate, Labels |-> << <<"x">> >>,
        Version |-> <<"1">>, MergeableState |-> MergeableStateMergeable]
PRc == [Repository |-> <<"o", "/", "c">>, Number |-> 3, Title |-> <<"d", "v">>,
        Body |-> <<>>, BotType |-> BotGitHubActions, Labels |-> <<>>,
        Version |-> <<"-">>, MergeableState |-> MergeableStateConflicting]

\* PRb with its title in capitals, under a number of its own.
PRd == [PRb EXCEPT !.Number = 4, !.Title = <<"U", "P">>]

\* A renovate PR with conflicts whose body has the unchecked rebase checkbox.
PRe == [Repository |-> <<"o", "/", "e">>, Number |-> 5, Title |-> <<"u", "p">>,
        Body |-> <<"-", " ", "[", " ", "]", " ", "r", "e", "b", "a", "s", "e">>,
        BotType |-> BotRenovate, Labels |-> <<>>,
        Version |-> <<"1">>, MergeableState |-> MergeableStateConflicting]

\* A renovate PR with conflicts whose rebase checkbox is already checked.
PRg == [Repository |-> <<"o", "/", "g">>, Number |-> 6, Title |-> <<"u", "p">>,
        Body |-> <<"-", " ", "[", "x", "]", " ", "r", "e", "b", "a", "s", "e">>,
        BotType |-> BotRenovate, Labels |-> <<>>,
        Version |-> <<"1">>, MergeableState |-> MergeableStateConflicting]

\* PRa as the service reports it once its conflicts are gone.
PRh == [PRa EXCEPT !.MergeableState = MergeableStateMergeable]

PullRequests == <<PRa, PRb, PRc, PRd, PRe, PRg, PRh>>

PR(k) == PullRequests[k]

World1 == {1, 2, 3}

\* A smaller service: the pull request that is rebased and the one that merges.
World2 == {1, 2}

\* A service with a pull request of each bot, all three in conflict.
RebaseWorld == {1, 3, 5}

\* A service with a mergeable pull request and a renovate pull request in
\* conflict that has no unchecked rebase checkbox.
CheckboxWorld == {2, 6}

\* The service the search is exercised on: two pull requests differ in the
\* letter case of the title only.
FilterWorld == {1, 2, 3, 4}

\* RepoName of every pull request of the table.
RepoNameOf == [k \in DOMAIN PullRequests |-> RepoName(PR(k))]

\* Identity of a pull request: repository + number.
SamePR(p, q) == p.Number = q.Number /\ p.Repository = q.Repository

----------------------------------------------------------------------------
(* Go slices *)

\* The elements a slice shows.
Elems(h, s) == SubSeq(h[s.arr], 1, s.len)

\* append(s[:i], s[i+1:]...): the elements after index i move down one place
\* inside the backing array of s; the array keeps its length and its last
\* element, the new header is one shorter.
RemoveAt(h, s, i) ==
    LET a == h[s.arr]
    IN  [heap  |-> [h EXCEPT ![s.arr] =
                       [k \in 1..Len(a) |-> IF k >= i + 1 /\ k <= s.len - 1 THEN a[k + 1] ELSE a[k]]],
         slice |-> [arr |-> s.arr, len |-> s.len - 1]]

\* Drop what no slice can read: an array no header names, and the part of an
\* array beyond the longest header over it.
Canon(h, p, f) ==
    [id \in {1, 2} |->
        LET longest == IF p.arr = id /\ f.arr = id THEN (IF p.len >= f.len THEN p.len ELSE f.len)
                       ELSE IF p.arr = id THEN p.len
                       ELSE IF f.arr = id THEN f.len
                       ELSE 0
        IN  SubSeq(h[id], 1, longest)]

\* sort.Slice(prs, less by RepoName): insertion sort, as Go runs it on a
\* slice of at most 12 elements.
RECURSIVE InsertSorted(_, _)
InsertSorted(s, x) ==
    IF s = <<>> THEN <<x>>
    ELSE IF StrLess(RepoNameOf[x], RepoNameOf[s[Len(s)]])
         THEN InsertSorted(SubSeq(s, 1, Len(s) - 1), x) \o <<s[Len(s)]>>
         ELSE s \o <<x>>

RECURSIVE SortByRepoName(_)
SortByRepoName(s) ==
    IF s = <<>> THEN <<>>
    ELSE InsertSorted(SortByRepoName(SubSeq(s, 1, Len(s) - 1)), s[Len(s)])

----------------------------------------------------------------------------
(* Status messages and commands *)

\* A status message is a format string and the number it is formatted with
\* (0 when the format takes none, or takes an error or server text).
Msg(f, n) == [fmt |-> f, arg |-> n]

NoMessage == Msg("", 0)

\* What a command's goroutine holds: the pull request its closure captured
\* (<<>> for a refresh), where it stands (run: executing, send: its message
\* is waiting for the loop), the message, and the remote endpoints called.
Command(kind, pr) ==
    [kind |-> kind, pr |-> pr, pc |-> "run", success |-> FALSE, message |-> NoMessage, calls |-> {}]

Result(success, msg, calls) == [success |-> success, message |-> msg, calls |-> calls]

Finished(c, r) ==
    [c EXCEPT !.pc = "send", !.success = r.success, !.message = r.message, !.calls = r.calls]

InFlight(kind) == {c \in BagToSet(cmds) : c.kind = kind}

\* How many refresh commands are in flight (they are all alike).
RefreshesInFlight == CopiesIn(Command("refresh", <<>>), cmds)

AddCmd(b, c) == b (+) SetToBag({c})

DelCmd(b, c) == b (-) SetToBag({c})

\* mergePR without its check for conflicts.
mergePR_NoConflictCheck(pr) ==
    IF ~ParseRepositoryOk(pr.Repository)
    THEN {Result(FALSE, Msg("Invalid repository format: %v", 0), {})}
    ELSE {Result(FALSE, Msg("Merge failed: %v", 0), {"MergePullRequest"}),
          Result(FALSE, Msg("Merge unsuccessful: %s", 0), {"MergePullRequest"}),
          Result(TRUE, Msg("Successfully merged PR #%d in %s", pr.Number), {"MergePullRequest"})}

\* mergePR whose closure returns no message once the remote call was made.
mergePR_NoMessage(pr) ==
    IF pr.MergeableState = MergeableStateConflicting
    THEN {Result(FALSE, Msg("PR #%d has conflicts and cannot be merged", pr.Number), {})}
    ELSE IF ~ParseRepositoryOk(pr.Repository)
    THEN {Result(FALSE, Msg("Invalid repository format: %v", 0), {})}
    ELSE {}

\* The results the closure of mergePR can return for pr: a local rejection,
\* or what the remote merge call answers.
mergePR(pr) ==
    IF pr.MergeableState = MergeableStateConflicting
    THEN {Result(FALSE, Msg("PR #%d has conflicts and cannot be merged", pr.Number), {})}
    ELSE IF ~ParseRepositoryOk(pr.Repository)
    THEN {Result(FALSE, Msg("Invalid repository format: %v", 0), {})}
    ELSE {Result(FALSE, Msg("Merge failed: %v", 0), {"MergePullRequest"}),
          Result(FALSE, Msg("Merge unsuccessful: %s", 0), {"MergePullRequest"}),
          Result(TRUE, Msg("Successfully merged PR #%d in %s", pr.Number), {"MergePullRequest"})}

\* Whitespace as the regular expression's \s sees it.
IsSpace(c) == c \in {" ", "\t", "\n"}

AllSpace(s, i, j) == \A k \in i..j : IsSpace(s[k])

\* s[i..j] is <!--[^>]*-->
IsComment(s, i, j) ==
    /\ j - i + 1 >= 7
    /\ SubSeq(s, i, i + 3) = <<"<", "!", "-", "-">>
    /\ SubSeq(s, j - 2, j) = <<"-", "-", ">">>
    /\ \A k \in (i + 4)..(j - 3) : s[k] # ">"

\* s[i..j] is \s*(?:<!--[^>]*-->)?\s*
IsGap(s, i, j) ==
    \/ AllSpace(s, i, j)
    \/ \E c1 \in i..j : \E c2 \in c1..j :
          AllSpace(s, i, c1 - 1) /\ IsComment(s, c1, c2) /\ AllSpace(s, c2 + 1, j)

\* api.CheckRenovateRebaseCheckbox: TRUE when the body matches
\* (?m)^(\s*-\s*\[)\s(\]\s*(?:<!--[^>]*-->)?\s*.*?rebase.*?)$
CheckRenovateRebaseCheckboxOk(body) ==
    \E st \in 1..Len(body) : \E d \in st..Len(body) : \E b \in (d + 1)..Len(body) :
        /\ st = 1 \/ body[st - 1] = "\n"
        /\ AllSpace(body, st, d - 1)
        /\ body[d] = "-"
        /\ AllSpace(body, d + 1, b - 1)
        /\ body[b] = "["
        /\ b + 2 <= Len(body)
        /\ IsSpace(body[b + 1])
        /\ body[b + 2] = "]"
        /\ \E g \in (b + 2)..Len(body) : \E e \in g..Len(body) :
              /\ IsGap(body, b + 3, g)
              /\ \A k \in (g + 1)..e : body[k] # "\n"
              /\ Contains(SubSeq(body, g + 1, e), <<"r", "e", "b", "a", "s", "e">>)
              /\ e = Len(body) \/ body[e + 1] = "\n"

\* rebasePR that sends the body update without looking for the checkbox.
rebasePR_UpdatesBlindly(pr) ==
    IF ~ParseRepositoryOk(pr.Repository)
    THEN {Result(FALSE, Msg("Invalid repository format: %v", 0), {})}
    ELSE IF UsesCheckboxRebase(pr.BotType)
    THEN {Result(FALSE, Msg("Failed to trigger rebase: %v", 0), {"UpdatePullRequestBody"}),
          Result(TRUE, Msg("Rebase triggered for PR #%d in %s (checkbox checked)", pr.Number),
                 {"UpdatePullRequestBody"})}
    ELSE IF RebaseCommand(pr.BotType) # ""
    THEN {Result(FALSE, Msg("Failed to post rebase comment: %v", 0), {"CreateComment"}),
          Result(TRUE, Msg("Rebase triggered for PR #%d in %s (comment posted)", pr.Number),
                 {"CreateComment"})}
    ELSE {Result(FALSE, Msg("Bot %s does not support rebase", 0), {})}

\* The results the closure of rebasePR can return for pr.
rebasePR(pr) ==
    IF ~ParseRepositoryOk(pr.Repository)
    THEN {Result(FALSE, Msg("Invalid repository format: %v", 0), {})}
    ELSE IF UsesCheckboxRebase(pr.BotType)
    THEN IF ~CheckRenovateRebaseCheckboxOk(pr.Body)
         THEN {Result(FALSE, Msg("Failed to trigger rebase: %v", 0), {})}
         ELSE {Result(FALSE, Msg("Failed to trigger rebase: %v", 0), {"UpdatePullRequestBody"}),
               Result(TRUE, Msg("Rebase triggered for PR #%d in %s (checkbox checked)", pr.Number),
                      {"UpdatePullRequestBody"})}
    ELSE IF RebaseCommand(pr.BotType) # ""
    THEN {Result(FALSE, Msg("Failed to post rebase comment: %v", 0), {"CreateComment"}),
          Result(TRUE, Msg("Rebase triggered for PR #%d in %s (comment posted)", pr.Number),
                 {"CreateComment"})}
    ELSE {Result(FALSE, Msg("Bot %s does not support rebase", 0), {})}

\* What a fetch can return: the service's pull requests, any of them, in any order.
FetchResults(cat) ==
    UNION {{s \in [1..n -> cat] : \A i, j \in 1..n : i # j => s[i] # s[j]} :
           n \in 0..Cardinality(cat)}

\* A service with the one pull request that is rebased, polled and merged.
PollWorld == {1}

\* The states of the remote service the model starts from.
Worlds == {World1, World2, FilterWorld, RebaseWorld, CheckboxWorld, PollWorld}

\* FetchResults of every world.
FetchResultsOf == [cat \in Worlds |-> FetchResults(cat)]

----------------------------------------------------------------------------
(* model.filterPRs *)

\* The text a query is matched against.
SearchText(pr) ==
    ToLower(RepoName(pr) \o <<" ">> \o pr.Title \o <<" ">> \o DisplayName(pr.BotType) \o <<" ">>
            \o Join(pr.Labels, <<" ">>) \o <<" ">> \o pr.Version)

\* SearchText of every pull request of the table.
SearchTextOf == [k \in DOMAIN PullRequests |-> SearchText(PR(k))]

\* Matches that compares the query with whole words of the search text.
Matches_WholeWords(k, q) ==
    \E i \in 1..Len(Split(SearchTextOf[k], " ")) : Split(SearchTextOf[k], " ")[i] = ToLower(q)

\* Matches that forgets to lower the query.
Matches_QueryAsTyped(k, q) == Contains(SearchTextOf[k], q)

Matches(k, q) == Contains(SearchTextOf[k], ToLower(q))

\* filterPRs on (heap h, m.prs p, m.query q, m.cursor cur): the new heap,
\* m.filtered and m.cursor. With an empty query m.filtered becomes the header
\* of m.prs, over the same backing array; otherwise a new array is built.
filterPRs(h, p, q, cur) ==
    IF q = <<>>
    THEN [heap |-> h, filtered |-> p, cursor |-> 0]
    ELSE LET kept == SelectSeq(Elems(h, p), LAMBDA k : Matches(k, q))
             c1   == IF cur >= Len(kept) THEN Len(kept) - 1 ELSE cur
         IN  [heap     |-> [h EXCEPT ![2] = kept],
              filtered |-> [arr |-> 2, len |-> Len(kept)],
              cursor   |-> IF c1 < 0 THEN 0 ELSE c1]

----------------------------------------------------------------------------
(* The program *)

\* The TUI runs instead of the line-prompt Runner.
NoRunner == [pc |-> "off"]

listVars == <<heap, prs, filtered, cursor, query>>
modeVars == <<searchMode, confirmMode, confirmingPR, confirmRebase>>
flagVars == <<merging, refreshing, rebasing>>
sizeVars == <<width, height>>

\* Terminal sizes a WindowSizeMsg can report.
Sizes == {<<80, 24>>, <<80, 12>>}

\* Keys that match no case of Update's key switch: a printable character
\* and a key whose name is longer than one character.
DefaultKeys == {<<"V">>, <<"t", "a", "b">>}

\* RunTUI: the list app.Run hands over is not empty and was sorted by
\* RenderTable; m.filtered starts as the header of m.prs.
InitWorld(cat) ==
    /\ catalog = cat
    /\ \E s \in FetchResultsOf[cat] \ {<<>>} :
          /\ heap = [id \in {1, 2} |-> IF id = 1 THEN SortByRepoName(s) ELSE <<>>]
          /\ prs = [arr |-> 1, len |-> Len(s)]
          /\ filtered = [arr |-> 1, len |-> Len(s)]
    /\ cursor = 0
    /\ query = <<>>
    /\ searchMode = FALSE
    /\ confirmMode = FALSE
    /\ confirmingPR = <<>>
    /\ confirmRebase = FALSE
    /\ message = NoMessage
    /\ messageType = ""
    /\ width = 80
    /\ height = 24
    /\ merging = FALSE
    /\ refreshing = FALSE
    /\ rebasing = FALSE
    /\ done = FALSE
    /\ cmds = EmptyBag
    /\ runner = NoRunner

Init == InitWorld(World1)

\* case tea.WindowSizeMsg
WindowSizeMsg(w, h) ==
    /\ ~done
    /\ width' = w
    /\ height' = h
    /\ UNCHANGED <<listVars, modeVars, flagVars, message, messageType, done, cmds, catalog, runner>>

\* The goroutine of a merge command runs the closure mergePR returned.
MergeCmdRun ==
    /\ ~done
    /\ \E c \in InFlight("merge") : \E r \in mergePR(PR(c.pr[1])) :
          /\ c.pc = "run"
          /\ cmds' = AddCmd(DelCmd(cmds, c), Finished(c, r))
    /\ UNCHANGED <<listVars, modeVars, flagVars, sizeVars, message, messageType, done, catalog, runner>>

\* The goroutine of a rebase command runs the closure rebasePR returned.
RebaseCmdRun ==
    /\ ~done
    /\ \E c \in InFlight("rebase") : \E r \in rebasePR(PR(c.pr[1])) :
          /\ c.pc = "run"
          /\ cmds' = AddCmd(DelCmd(cmds, c), Finished(c, r))
    /\ UNCHANGED <<listVars, modeVars, flagVars, sizeVars, message, messageType, done, catalog, runner>>

\* AdjustCursor that steps back whenever it can.
AdjustCursor_AlwaysStepsBack(cur, n) == IF cur > 0 THEN cur - 1 ELSE cur

\* AdjustCursor that never steps back.
AdjustCursor_NoStepBack(cur, n) == cur

\* The cursor after the item at the cursor left m.filtered (now n long).
AdjustCursor(cur, n) == IF cur >= n /\ cur > 0 THEN cur - 1 ELSE cur

\* The removal a successful mergeResultMsg performs: the item at the cursor
\* leaves m.filtered, then the first item of m.prs with its repository and
\* number leaves m.prs. Gives the new heap, m.prs, m.filtered and m.cursor.
RemoveMerged(h, p, f, cur) ==
    IF cur < f.len
    THEN LET mergedPR == h[f.arr][cur + 1]
             r1 == RemoveAt(h, f, cur)
             e  == Elems(r1.heap, p)
             hits == {i \in 0..(p.len - 1) : SamePR(PR(e[i + 1]), PR(mergedPR))}
             r2 == IF hits = {} THEN [heap |-> r1.heap, slice |-> p]
                   ELSE RemoveAt(r1.heap, p, CHOOSE i \in hits : \A j \in hits : i <= j)
         IN  [heap |-> r2.heap, prs |-> r2.slice, filtered |-> r1.slice,
              cursor |-> AdjustCursor(cur, r1.slice.len)]
    ELSE [heap |-> h, prs |-> p, filtered |-> f, cursor |-> cur]

\* case mergeResultMsg that leaves the list as it is after the removal,
\* without a refresh.
Update_mergeResultMsg_NoRefresh ==
    /\ ~done
    /\ \E c \in InFlight("merge") :
          /\ c.pc = "send"
          /\ merging' = FALSE
          /\ message' = c.message
          /\ cmds' = DelCmd(cmds, c)
          /\ UNCHANGED refreshing
          /\ IF c.success
             THEN LET r == RemoveMerged(heap, prs, filtered, cursor)
                  IN  /\ heap' = Canon(r.heap, r.prs, r.filtered)
                      /\ prs' = r.prs
                      /\ filtered' = r.filtered
                      /\ cursor' = r.cursor
                      /\ messageType' = "success"
             ELSE /\ messageType' = "error"
                  /\ UNCHANGED <<heap, prs, filtered, cursor>>
    /\ UNCHANGED <<query, modeVars, rebasing, sizeVars, done, catalog, runner>>

\* case mergeResultMsg that removes the item before it looks at msg.success.
Update_mergeResultMsg_RemovesOnFailure ==
    /\ ~done
    /\ \E c \in InFlight("merge") :
          LET r == RemoveMerged(heap, prs, filtered, cursor)
          IN  /\ c.pc = "send"
              /\ merging' = FALSE
              /\ heap' = Canon(r.heap, r.prs, r.filtered)
              /\ prs' = r.prs
              /\ filtered' = r.filtered
              /\ cursor' = r.cursor
              /\ IF c.success
                 THEN /\ RefreshesInFlight < MaxRefreshInFlight
                      /\ refreshing' = TRUE
                      /\ message' = Msg("Refreshing PRs...", 0)
                      /\ messageType' = ""
                      /\ cmds' = AddCmd(DelCmd(cmds, c), Command("refresh", <<>>))
                 ELSE /\ message' = c.message
                      /\ messageType' = "error"
                      /\ cmds' = DelCmd(cmds, c)
                      /\ UNCHANGED refreshing
    /\ UNCHANGED <<query, modeVars, rebasing, sizeVars, done, catalog, runner>>

\* case mergeResultMsg
Update_mergeResultMsg ==
    /\ ~done
    /\ \E c \in InFlight("merge") :
          /\ c.pc = "send"
          /\ merging' = FALSE
          /\ IF c.success
             THEN LET r == RemoveMerged(heap, prs, filtered, cursor)
                  IN  /\ RefreshesInFlight < MaxRefreshInFlight
                      /\ heap' = Canon(r.heap, r.prs, r.filtered)
                      /\ prs' = r.prs
                      /\ filtered' = r.filtered
                      /\ cursor' = r.cursor
                      /\ refreshing' = TRUE
                      /\ message' = Msg("Refreshing PRs...", 0)
                      /\ messageType' = ""
                      /\ cmds' = AddCmd(DelCmd(cmds, c), Command("refresh", <<>>))
             ELSE /\ message' = c.message
                  /\ messageType' = "error"
                  /\ cmds' = DelCmd(cmds, c)
                  /\ UNCHANGED <<heap, prs, filtered, cursor, refreshing>>
    /\ UNCHANGED <<query, modeVars, rebasing, sizeVars, done, catalog, runner>>

\* case rebaseResultMsg that quits the program when the rebase failed.
Update_rebaseResultMsg_QuitsOnError ==
    /\ ~done
    /\ \E c \in InFlight("rebase") :
          /\ c.pc = "send"
          /\ rebasing' = FALSE
          /\ message' = c.message
          /\ messageType' = IF c.success THEN "success" ELSE "error"
          /\ done' = ~c.success
          /\ cmds' = DelCmd(cmds, c)
    /\ UNCHANGED <<listVars, modeVars, merging, refreshing, sizeVars, catalog, runner>>

\* case rebaseResultMsg
Update_rebaseResultMsg ==
    /\ ~done
    /\ \E c \in InFlight("rebase") :
          /\ c.pc = "send"
          /\ rebasing' = FALSE
          /\ message' = c.message
          /\ messageType' = IF c.success THEN "success" ELSE "error"
          /\ cmds' = DelCmd(cmds, c)
    /\ UNCHANGED <<listVars, modeVars, merging, refreshing, sizeVars, done, catalog, runner>>

\* if m.cursor >= len(m.filtered) { m.cursor = len(m.filtered) - 1 }; if m.cursor < 0 { m.cursor = 0 }
ClampCursor(cur, n) ==
    LET c1 == IF cur >= n THEN n - 1 ELSE cur
    IN  IF c1 < 0 THEN 0 ELSE c1

\* case refreshPRsMsg that installs msg.prs before it looks at msg.err.
Update_refreshPRsMsg_InstallsOnError(fetched, err) ==
    /\ ~done
    /\ \E c \in InFlight("refresh") :
          LET p == [arr |-> 1, len |-> Len(fetched)]
              h == [heap EXCEPT ![1] = SortByRepoName(fetched)]
              r == filterPRs(h, p, query, cursor)
          IN  /\ cmds' = DelCmd(cmds, c)
              /\ refreshing' = FALSE
              /\ heap' = Canon(r.heap, p, r.filtered)
              /\ prs' = p
              /\ filtered' = r.filtered
              /\ cursor' = ClampCursor(r.cursor, r.filtered.len)
              /\ IF err
                 THEN /\ message' = Msg("Failed to refresh PRs: %v", 0)
                      /\ messageType' = "error"
                 ELSE /\ message' = Msg("Refreshed: %d PRs loaded", Len(fetched))
                      /\ messageType' = "success"
    /\ UNCHANGED <<query, modeVars, merging, rebasing, sizeVars, done, catalog, runner>>

\* case refreshPRsMsg that installs the fetched list in the order it came.
Update_refreshPRsMsg_Unsorted(fetched, err) ==
    /\ ~done
    /\ \E c \in InFlight("refresh") :
          /\ cmds' = DelCmd(cmds, c)
          /\ refreshing' = FALSE
          /\ IF err
             THEN /\ message' = Msg("Failed to refresh PRs: %v", 0)
                  /\ messageType' = "error"
                  /\ UNCHANGED <<heap, prs, filtered, cursor>>
             ELSE LET p == [arr |-> 1, len |-> Len(fetched)]
                      h == [heap EXCEPT ![1] = fetched]
                      r == filterPRs(h, p, query, cursor)
                  IN  /\ heap' = Canon(r.heap, p, r.filtered)
                      /\ prs' = p
                      /\ filtered' = r.filtered
                      /\ cursor' = ClampCursor(r.cursor, r.filtered.len)
                      /\ message' = Msg("Refreshed: %d PRs loaded", Len(fetched))
                      /\ messageType' = "success"
    /\ UNCHANGED <<query, modeVars, merging, rebasing, sizeVars, done, catalog, runner>>

\* case refreshPRsMsg: the goroutine of a refresh command delivers what the
\* fetch returned (the result is drawn here: nothing reads it earlier).
Update_refreshPRsMsg(fetched, err) ==
    /\ ~done
    /\ \E c \in InFlight("refresh") :
          /\ cmds' = DelCmd(cmds, c)
          /\ refreshing' = FALSE
          /\ IF err
             THEN /\ message' = Msg("Failed to refresh PRs: %v", 0)
                  /\ messageType' = "error"
                  /\ UNCHANGED <<heap, prs, filtered, cursor>>
             ELSE LET p == [arr |-> 1, len |-> Len(fetched)]
                      h == [heap EXCEPT ![1] = SortByRepoName(fetched)]
                      r == filterPRs(h, p, query, cursor)
                  IN  /\ heap' = Canon(r.heap, p, r.filtered)
                      /\ prs' = p
                      /\ filtered' = r.filtered
                      /\ cursor' = ClampCursor(r.cursor, r.filtered.len)
                      /\ message' = Msg("Refreshed: %d PRs loaded", Len(fetched))
                      /\ messageType' = "success"
    /\ UNCHANGED <<query, modeVars, merging, rebasing, sizeVars, done, catalog, runner>>

----------------------------------------------------------------------------
(* case tea.KeyMsg *)

\* The clearing of the status message without its exemption of confirm mode.
ClearsMessage_InModal == message.fmt # ""

\* Every key press first clears the status message, except in confirm mode.
ClearsMessage == message.fmt # "" /\ ~confirmMode

ClearedMessage == IF ClearsMessage THEN NoMessage ELSE message

ClearedType == IF ClearsMessage THEN "" ELSE messageType

KeepMessage == message' = ClearedMessage /\ messageType' = ClearedType

\* case "ctrl+c" that waits for what is in flight.
KeyCtrlC_WhenIdle ==
    /\ ~done
    /\ KeepMessage
    /\ done' = (cmds = EmptyBag)
    /\ UNCHANGED <<listVars, modeVars, flagVars, sizeVars, cmds, catalog, runner>>

\* case "ctrl+c"
KeyCtrlC ==
    /\ ~done
    /\ KeepMessage
    /\ done' = TRUE
    /\ UNCHANGED <<listVars, modeVars, flagVars, sizeVars, cmds, catalog, runner>>

\* case "q", "esc" that leaves search mode as enter does.
KeyQuitEsc_KeepsQuery ==
    /\ ~done
    /\ KeepMessage
    /\ IF confirmMode
       THEN /\ confirmMode' = FALSE
            /\ confirmingPR' = <<>>
            /\ confirmRebase' = FALSE
            /\ UNCHANGED <<listVars, searchMode, done>>
       ELSE IF searchMode
       THEN /\ searchMode' = FALSE
            /\ UNCHANGED <<listVars, confirmMode, confirmingPR, confirmRebase, done>>
       ELSE /\ done' = TRUE
            /\ UNCHANGED <<listVars, modeVars>>
    /\ UNCHANGED <<flagVars, sizeVars, cmds, catalog, runner>>

\* case "q", "esc" that quits from the confirmation modal too.
KeyQuitEsc_QuitsFromModal ==
    /\ ~done
    /\ KeepMessage
    /\ IF searchMode
       THEN LET r == filterPRs(heap, prs, <<>>, cursor)
            IN  /\ searchMode' = FALSE
                /\ query' = <<>>
                /\ heap' = Canon(r.heap, prs, r.filtered)
                /\ filtered' = r.filtered
                /\ cursor' = r.cursor
                /\ UNCHANGED <<prs, confirmMode, confirmingPR, confirmRebase, done>>
       ELSE /\ done' = TRUE
            /\ UNCHANGED <<listVars, modeVars>>
    /\ UNCHANGED <<flagVars, sizeVars, cmds, catalog, runner>>

\* case "q", "esc"
KeyQuitEsc ==
    /\ ~done
    /\ KeepMessage
    /\ IF confirmMode
       THEN /\ confirmMode' = FALSE
            /\ confirmingPR' = <<>>
            /\ confirmRebase' = FALSE
            /\ UNCHANGED <<listVars, searchMode, done>>
       ELSE IF searchMode
       THEN LET r == filterPRs(heap, prs, <<>>, cursor)
            IN  /\ searchMode' = FALSE
                /\ query' = <<>>
                /\ heap' = Canon(r.heap, prs, r.filtered)
                /\ filtered' = r.filtered
                /\ cursor' = r.cursor
                /\ UNCHANGED <<prs, confirmMode, confirmingPR, confirmRebase, done>>
       ELSE /\ done' = TRUE
            /\ UNCHANGED <<listVars, modeVars>>
    /\ UNCHANGED <<flagVars, sizeVars, cmds, catalog, runner>>

\* case "/" that enters search mode from the confirmation modal too.
KeySlash_FromModal ==
    /\ ~done
    /\ KeepMessage
    /\ searchMode' = TRUE
    /\ UNCHANGED <<listVars, confirmMode, confirmingPR, confirmRebase, flagVars, sizeVars,
                   done, cmds, catalog, runner>>

\* case "/"
KeySlash ==
    /\ ~done
    /\ KeepMessage
    /\ searchMode' = IF ~confirmMode THEN TRUE ELSE searchMode
    /\ UNCHANGED <<listVars, confirmMode, confirmingPR, confirmRebase, flagVars, sizeVars,
                   done, cmds, catalog, runner>>

\* The guard of the manual refresh.
CanRefresh == ~searchMode /\ ~confirmMode /\ ~merging /\ ~refreshing

\* case "r" with a refresh that drops what is scheduled.
KeyR_CancelsPolls ==
    /\ ~done
    /\ IF CanRefresh
       THEN /\ RefreshesInFlight < MaxRefreshInFlight
            /\ refreshing' = TRUE
            /\ message' = Msg("Refreshing PRs...", 0)
            /\ messageType' = ""
            /\ cmds' = SetToBag({Command("refresh", <<>>)})
       ELSE /\ KeepMessage
            /\ UNCHANGED <<refreshing, cmds>>
    /\ UNCHANGED <<listVars, modeVars, merging, rebasing, sizeVars, done, catalog, runner>>

\* case "r"
KeyR ==
    /\ ~done
    /\ IF CanRefresh
       THEN /\ RefreshesInFlight < MaxRefreshInFlight
            /\ refreshing' = TRUE
            /\ message' = Msg("Refreshing PRs...", 0)
            /\ messageType' = ""
            /\ cmds' = AddCmd(cmds, Command("refresh", <<>>))
       ELSE /\ KeepMessage
            /\ UNCHANGED <<refreshing, cmds>>
    /\ UNCHANGED <<listVars, modeVars, merging, rebasing, sizeVars, done, catalog, runner>>

\* case "o": openBrowser fails or not.
KeyO(failed) ==
    /\ ~done
    /\ IF ~searchMode /\ ~confirmMode /\ filtered.len > 0 /\ cursor < filtered.len
       THEN IF failed
            THEN message' = Msg("Failed to open browser: %v", 0) /\ messageType' = "error"
            ELSE /\ message' = Msg("Opened PR #%d in browser", PR(heap[filtered.arr][cursor + 1]).Number)
                 /\ messageType' = "success"
       ELSE KeepMessage
    /\ UNCHANGED <<listVars, modeVars, flagVars, sizeVars, done, cmds, catalog, runner>>

\* CanDispatch without the in-flight checks.
CanDispatch_Unguarded == confirmingPR # <<>>

\* CanDispatch that forgets a rebase in flight.
CanDispatch_MergeOnly == confirmingPR # <<>> /\ ~merging

\* CanDispatch that forgets a merge in flight.
CanDispatch_RebaseOnly == confirmingPR # <<>> /\ ~rebasing

\* The guard of the dispatch in confirm mode.
CanDispatch == confirmingPR # <<>> /\ ~merging /\ ~rebasing

\* CanConfirm that refuses while a merge or rebase is in flight.
CanConfirm_Idle == filtered.len > 0 /\ cursor < filtered.len /\ ~merging /\ ~rebasing

\* The guard of the confirmation modal.
CanConfirm == filtered.len > 0 /\ cursor < filtered.len

\* OffersRebase that does not ask whether the pull request is in conflict.
OffersRebase_AnyState(pr) == SupportsRebase(pr.BotType)

\* OffersRebase that does not ask whether the bot can rebase.
OffersRebase_AnyConflict(pr) == pr.MergeableState = MergeableStateConflicting

\* Whether the modal offers a rebase instead of a merge.
OffersRebase(pr) == pr.MergeableState = MergeableStateConflicting /\ SupportsRebase(pr.BotType)

\* case "enter", "y" that dispatches for the row under the cursor.
KeyEnterY_AtCursor ==
    /\ ~done
    /\ IF confirmMode
       THEN IF CanDispatch
            THEN LET pr == IF cursor < filtered.len THEN heap[filtered.arr][cursor + 1]
                                                     ELSE confirmingPR[1]
                 IN  /\ confirmMode' = FALSE
                     /\ confirmingPR' = <<>>
                     /\ confirmRebase' = FALSE
                     /\ messageType' = ""
                     /\ IF confirmRebase
                        THEN /\ rebasing' = TRUE
                             /\ message' = Msg("Triggering rebase...", 0)
                             /\ cmds' = AddCmd(cmds, Command("rebase", <<pr>>))
                             /\ UNCHANGED merging
                        ELSE /\ merging' = TRUE
                             /\ message' = Msg("Merging...", 0)
                             /\ cmds' = AddCmd(cmds, Command("merge", <<pr>>))
                             /\ UNCHANGED rebasing
                     /\ UNCHANGED searchMode
            ELSE /\ KeepMessage
                 /\ UNCHANGED <<modeVars, merging, rebasing, cmds>>
       ELSE IF searchMode
       THEN /\ KeepMessage
            /\ searchMode' = FALSE
            /\ UNCHANGED <<confirmMode, confirmingPR, confirmRebase, merging, rebasing, cmds>>
       ELSE /\ KeepMessage
            /\ IF CanConfirm
               THEN LET pr == heap[filtered.arr][cursor + 1]
                    IN  /\ confirmMode' = TRUE
                        /\ confirmingPR' = <<pr>>
                        /\ confirmRebase' = OffersRebase(PR(pr))
               ELSE UNCHANGED <<confirmMode, confirmingPR, confirmRebase>>
            /\ UNCHANGED <<searchMode, merging, rebasing, cmds>>
    /\ UNCHANGED <<listVars, refreshing, sizeVars, done, catalog, runner>>

\* case "enter", "y"
KeyEnterY ==
    /\ ~done
    /\ IF confirmMode
       THEN IF CanDispatch
            THEN LET pr == confirmingPR[1]
                 IN  /\ confirmMode' = FALSE
                     /\ confirmingPR' = <<>>
                     /\ confirmRebase' = FALSE
                     /\ messageType' = ""
                     /\ IF confirmRebase
                        THEN /\ rebasing' = TRUE
                             /\ message' = Msg("Triggering rebase...", 0)
                             /\ cmds' = AddCmd(cmds, Command("rebase", <<pr>>))
                             /\ UNCHANGED merging
                        ELSE /\ merging' = TRUE
                             /\ message' = Msg("Merging...", 0)
                             /\ cmds' = AddCmd(cmds, Command("merge", <<pr>>))
                             /\ UNCHANGED rebasing
                     /\ UNCHANGED searchMode
            ELSE /\ KeepMessage
                 /\ UNCHANGED <<modeVars, merging, rebasing, cmds>>
       ELSE IF searchMode
       THEN /\ KeepMessage
            /\ searchMode' = FALSE
            /\ UNCHANGED <<confirmMode, confirmingPR, confirmRebase, merging, rebasing, cmds>>
       ELSE /\ KeepMessage
            /\ IF CanConfirm
               THEN LET pr == heap[filtered.arr][cursor + 1]
                    IN  /\ confirmMode' = TRUE
                        /\ confirmingPR' = <<pr>>
                        /\ confirmRebase' = OffersRebase(PR(pr))
               ELSE UNCHANGED <<confirmMode, confirmingPR, confirmRebase>>
            /\ UNCHANGED <<searchMode, merging, rebasing, cmds>>
    /\ UNCHANGED <<listVars, refreshing, sizeVars, done, catalog, runner>>

\* case "n"
KeyN ==
    /\ ~done
    /\ KeepMessage
    /\ IF confirmMode
       THEN confirmMode' = FALSE /\ confirmingPR' = <<>> /\ confirmRebase' = FALSE
       ELSE UNCHANGED <<confirmMode, confirmingPR, confirmRebase>>
    /\ UNCHANGED <<listVars, searchMode, flagVars, sizeVars, done, cmds, catalog, runner>>

\* case "up", "k"
KeyUp ==
    /\ ~done
    /\ KeepMessage
    /\ cursor' = IF ~searchMode /\ ~confirmMode /\ cursor > 0 THEN cursor - 1 ELSE cursor
    /\ UNCHANGED <<heap, prs, filtered, query, modeVars, flagVars, sizeVars, done, cmds, catalog, runner>>

\* case "down", "j" that steps past the last row.
KeyDown_PastEnd ==
    /\ ~done
    /\ KeepMessage
    /\ cursor' = IF ~searchMode /\ ~confirmMode THEN cursor + 1 ELSE cursor
    /\ UNCHANGED <<heap, prs, filtered, query, modeVars, flagVars, sizeVars, done, cmds, catalog, runner>>

\* case "down", "j"
KeyDown ==
    /\ ~done
    /\ KeepMessage
    /\ cursor' = IF ~searchMode /\ ~confirmMode /\ cursor < filtered.len - 1
                 THEN cursor + 1 ELSE cursor
    /\ UNCHANGED <<heap, prs, filtered, query, modeVars, flagVars, sizeVars, done, cmds, catalog, runner>>

\* case "backspace"
KeyBackspace ==
    /\ ~done
    /\ KeepMessage
    /\ IF searchMode /\ Len(query) > 0
       THEN LET q == SubSeq(query, 1, Len(query) - 1)
                r == filterPRs(heap, prs, q, cursor)
            IN  /\ query' = q
                /\ heap' = Canon(r.heap, prs, r.filtered)
                /\ filtered' = r.filtered
                /\ cursor' = r.cursor
                /\ UNCHANGED prs
       ELSE UNCHANGED listVars
    /\ UNCHANGED <<modeVars, flagVars, sizeVars, done, cmds, catalog, runner>>

\* default: a key no case names, for queries shorter than maxLen.
KeyDefaultWithin(key, maxLen) ==
    /\ ~done
    /\ KeepMessage
    /\ IF searchMode /\ ~confirmMode /\ Len(key) = 1
       THEN LET q == query \o key
                r == filterPRs(heap, prs, q, cursor)
            IN  /\ Len(query) < maxLen
                /\ query' = q
                /\ heap' = Canon(r.heap, prs, r.filtered)
                /\ filtered' = r.filtered
                /\ cursor' = r.cursor
                /\ UNCHANGED prs
       ELSE UNCHANGED listVars
    /\ UNCHANGED <<modeVars, flagVars, sizeVars, done, cmds, catalog, runner>>

\* default: a key no case names.
KeyDefault(key) == KeyDefaultWithin(key, MaxQueryLen)

Next ==
    \/ \E sz \in Sizes : WindowSizeMsg(sz[1], sz[2])
    \/ MergeCmdRun
    \/ RebaseCmdRun
    \/ Update_mergeResultMsg
    \/ Update_rebaseResultMsg
    \/ \E fetched \in FetchResultsOf[catalog] : Update_refreshPRsMsg(fetched, FALSE)
    \/ Update_refreshPRsMsg(<<>>, TRUE)
    \/ KeyCtrlC
    \/ KeyQuitEsc
    \/ KeySlash
    \/ KeyR
    \/ \E failed \in BOOLEAN : KeyO(failed)
    \/ KeyEnterY
    \/ KeyN
    \/ KeyUp
    \/ KeyDown
    \/ KeyBackspace
    \/ \E key \in DefaultKeys : KeyDefault(key)

Spec == Init /\ [][Next]_vars

\* The loop takes the message of a finished refresh command.
RefreshDelivered ==
    \/ \E fetched \in FetchResultsOf[catalog] : Update_refreshPRsMsg(fetched, FALSE)
    \/ Update_refreshPRsMsg(<<>>, TRUE)

\* The runtime runs every command in a goroutine of its own and hands its
\* message to the loop, which takes the messages sent to it one by one: a
\* call that can return does, a message that waits is taken.
Fairness ==
    /\ WF_vars(MergeCmdRun)
    /\ WF_vars(RebaseCmdRun)
    /\ WF_vars(Update_mergeResultMsg)
    /\ WF_vars(Update_rebaseResultMsg)
    /\ WF_vars(RefreshDelivered)

FairSpec == InitWorld(World2) /\ [][Next]_vars /\ Fairness

RebaseSpec == InitWorld(RebaseWorld) /\ [][Next]_vars

CheckboxSpec == InitWorld(CheckboxWorld) /\ [][Next]_vars

----------------------------------------------------------------------------
(* Poll controller *)

\* Seconds before the first poll after a merge and after a rebase, the
\* ceiling of the backoff and the number of attempts.
PollDelayAfterMerge == 2
PollDelayAfterRebase == 20
PollDelayCeiling == 30
PollMaxAttempts == 10

\* Repository + number of the pull request with key k.
Ident(k) == <<PR(k).Repository, PR(k).Number>>

\* Scheduled(attempt, dueAt) for a target: the tick that is due after delay
\* seconds; initial is the delay the poll was armed with.
Poll(target, attempt, delay, initial) ==
    [kind |-> "poll", pr |-> target, pc |-> "wait",
     attempt |-> attempt, delay |-> delay, initial |-> initial]

Polls == InFlight("poll")

PollsOf(target) == {p \in Polls : p.pr = target}

\* cmds with a poll armed for target, in place of the one it may have had.
ArmPoll(b, target, d) ==
    LET rest == [c \in {x \in BagToSet(b) : ~(x.kind = "poll" /\ x.pr = target)} |-> CopiesIn(c, b)]
    IN  rest (+) SetToBag({Poll(target, 1, d, d)})

\* The delay doubled without a ceiling.
Backoff_Uncapped(delay) == 2 * delay

\* The delay after delay: doubled, up to the ceiling.
Backoff(delay) == IF 2 * delay > PollDelayCeiling THEN PollDelayCeiling ELSE 2 * delay

\* What a tick can fetch for a target: a CI status, and either an unknown
\* mergeable classification or the item as the service now has it.
PollAnswers(target) ==
    {[ci |-> ci, mergeable |-> MergeableStateUnknown, item |-> 0] : ci \in {"PENDING", "SUCCESS"}}
    \cup {[ci |-> ci, mergeable |-> PR(j).MergeableState, item |-> j] :
             ci \in {"PENDING", "SUCCESS"}, j \in {k \in DOMAIN PullRequests : Ident(k) = target}}

\* The terminal condition without the CI status.
Settled_MergeableOnly(a) == a.mergeable # MergeableStateUnknown

\* The terminal condition of a poll.
Settled(a) == a.ci # "PENDING" /\ a.mergeable # MergeableStateUnknown

\* The arrays with every item of the target's identity replaced by item.
ReplaceInPlace(h, target, item) ==
    [id \in DOMAIN h |->
        [i \in DOMAIN h[id] |-> IF Ident(h[id][i]) = target THEN item ELSE h[id][i]]]

\* A scheduled tick of the poll p fetches answer a.
PollTick(p, a) ==
    /\ ~done
    /\ p \in Polls
    /\ a \in PollAnswers(p.pr)
    /\ IF \A i \in 1..prs.len : Ident(heap[prs.arr][i]) # p.pr
       THEN cmds' = DelCmd(cmds, p) /\ UNCHANGED heap
       ELSE IF Settled(a)
       THEN cmds' = DelCmd(cmds, p) /\ heap' = ReplaceInPlace(heap, p.pr, a.item)
       ELSE IF p.attempt < PollMaxAttempts
       THEN /\ cmds' = AddCmd(DelCmd(cmds, p),
                              Poll(p.pr, p.attempt + 1, Backoff(p.delay), p.initial))
            /\ UNCHANGED heap
       ELSE cmds' = DelCmd(cmds, p) /\ UNCHANGED heap
    /\ UNCHANGED <<prs, filtered, cursor, query, modeVars, flagVars, sizeVars, message,
                   messageType, done, catalog, runner>>

\* case mergeResultMsg, arming a poll for the merged pull request on success.
Poll_mergeResultMsg ==
    /\ ~done
    /\ \E c \in InFlight("merge") :
          /\ c.pc = "send"
          /\ merging' = FALSE
          /\ IF c.success
             THEN LET r == RemoveMerged(heap, prs, filtered, cursor)
                  IN  /\ RefreshesInFlight < MaxRefreshInFlight
                      /\ heap' = Canon(r.heap, r.prs, r.filtered)
                      /\ prs' = r.prs
                      /\ filtered' = r.filtered
                      /\ cursor' = r.cursor
                      /\ refreshing' = TRUE
                      /\ message' = Msg("Refreshing PRs...", 0)
                      /\ messageType' = ""
                      /\ cmds' = ArmPoll(AddCmd(DelCmd(cmds, c), Command("refresh", <<>>)),
                                         Ident(c.pr[1]), PollDelayAfterMerge)
             ELSE /\ message' = c.message
                  /\ messageType' = "error"
                  /\ cmds' = DelCmd(cmds, c)
                  /\ UNCHANGED <<heap, prs, filtered, cursor, refreshing>>
    /\ UNCHANGED <<query, modeVars, rebasing, sizeVars, done, catalog, runner>>

\* case rebaseResultMsg, arming a poll for the rebased pull request on success.
Poll_rebaseResultMsg ==
    /\ ~done
    /\ \E c \in InFlight("rebase") :
          /\ c.pc = "send"
          /\ rebasing' = FALSE
          /\ message' = c.message
          /\ messageType' = IF c.success THEN "success" ELSE "error"
          /\ cmds' = IF c.success
                     THEN ArmPoll(DelCmd(cmds, c), Ident(c.pr[1]), PollDelayAfterRebase)
                     ELSE DelCmd(cmds, c)
    /\ UNCHANGED <<listVars, modeVars, merging, refreshing, sizeVars, done, catalog, runner>>

\* The program with the poll controller: the user browses, confirms merges
\* and rebases and refreshes by hand.
PollNext ==
    \/ MergeCmdRun
    \/ RebaseCmdRun
    \/ Poll_mergeResultMsg
    \/ Poll_rebaseResultMsg
    \/ \E p \in Polls : \E a \in PollAnswers(p.pr) : PollTick(p, a)
    \/ RefreshDelivered
    \/ KeyR
    \/ KeyEnterY
    \/ KeyUp

PollSpec == InitWorld(PollWorld) /\ [][PollNext]_vars

\* A tick that is due fires: the timer of a scheduled poll runs out.
PollFairness == WF_vars(\E p \in Polls : \E a \in PollAnswers(p.pr) : PollTick(p, a))

PollFairSpec == PollSpec /\ PollFairness

----------------------------------------------------------------------------
(* model.View *)

\* The rows View has room for at a terminal height.
MaxVisible(h) == IF h - 10 < 5 THEN 5 ELSE h - 10

\* The row window without the clamp at the end of the list.
ViewWindow_Unclamped(cur, n, h) ==
    LET first == IF cur - MaxVisible(h) \div 2 < 0 THEN 0 ELSE cur - MaxVisible(h) \div 2
    IN  [startIdx |-> first, endIdx |-> first + MaxVisible(h)]

\* The row window [startIdx, endIdx) View renders for a cursor, a number of
\* rows and a terminal height.
ViewWindow(cur, n, h) ==
    LET first == IF cur - MaxVisible(h) \div 2 < 0 THEN 0 ELSE cur - MaxVisible(h) \div 2
    IN  IF first + MaxVisible(h) > n
        THEN [startIdx |-> IF n - MaxVisible(h) < 0 THEN 0 ELSE n - MaxVisible(h),
              endIdx |-> n]
        ELSE [startIdx |-> first, endIdx |-> first + MaxVisible(h)]

\* View has a value receiver and writes to no field and no slice element.
View == UNCHANGED vars

\* Terminal sizes with room for 5, 5, 5, 6, 7 and 14 rows.
ViewSizes == {<<80, 9>>, <<80, 14>>, <<80, 15>>, <<80, 16>>, <<80, 17>>, <<80, 24>>}

\* The pull requests of a service with more of them than a small terminal
\* shows.
ViewWorld == {1, 2, 3, 4, 5, 6}

\* The program in Browse mode over a list of none to all of these.
ViewInit ==
    /\ catalog = ViewWorld
    /\ \E n \in 0..Cardinality(ViewWorld) :
          /\ heap = [id \in {1, 2} |-> IF id = 1 THEN SortByRepoName([i \in 1..n |-> i]) ELSE <<>>]
          /\ prs = [arr |-> 1, len |-> n]
          /\ filtered = [arr |-> 1, len |-> n]
    /\ cursor = 0
    /\ query = <<>>
    /\ searchMode = FALSE
    /\ confirmMode = FALSE
    /\ confirmingPR = <<>>
    /\ confirmRebase = FALSE
    /\ message = NoMessage
    /\ messageType = ""
    /\ width = 80
    /\ height = 24
    /\ merging = FALSE
    /\ refreshing = FALSE
    /\ rebasing = FALSE
    /\ done = FALSE
    /\ cmds = EmptyBag
    /\ runner = NoRunner

\* The user moves the cursor and resizes the terminal; the runtime renders.
ViewNext ==
    \/ \E sz \in ViewSizes : WindowSizeMsg(sz[1], sz[2])
    \/ KeyUp
    \/ KeyDown
    \/ View

ViewSpec == ViewInit /\ [][ViewNext]_vars

----------------------------------------------------------------------------
(* Runner.Run *)

\* strings.TrimSpace
RECURSIVE TrimLeft(_)
TrimLeft(s) == IF s # <<>> /\ s[1] = " " THEN TrimLeft(Tail(s)) ELSE s

RECURSIVE TrimRight(_)
TrimRight(s) == IF s # <<>> /\ s[Len(s)] = " " THEN TrimRight(SubSeq(s, 1, Len(s) - 1)) ELSE s

TrimSpace(s) == TrimRight(TrimLeft(s))

Digits == <<"0", "1", "2", "3", "4", "5", "6", "7", "8", "9">>

IsDigit(c) == \E i \in 1..Len(Digits) : Digits[i] = c

DigitValue(c) == (CHOOSE i \in 1..Len(Digits) : Digits[i] = c) - 1

RECURSIVE DecimalValue(_)
DecimalValue(s) ==
    IF s = <<>> THEN 0 ELSE 10 * DecimalValue(SubSeq(s, 1, Len(s) - 1)) + DigitValue(s[Len(s)])

\* strconv.Atoi: an optional sign and then decimal digits, at least one.
Atoi(s) ==
    LET signed == s # <<>> /\ s[1] \in {"+", "-"}
        digits == IF signed THEN Tail(s) ELSE s
    IN  IF digits = <<>> \/ \E i \in 1..Len(digits) : ~IsDigit(digits[i])
        THEN [ok |-> FALSE, num |-> 0]
        ELSE [ok |-> TRUE,
              num |-> IF signed /\ s[1] = "-" THEN 0 - DecimalValue(digits)
                                              ELSE DecimalValue(digits)]

\* Runner.parseSelection
parseSelection(input, maxPRs) ==
    IF TrimSpace(input) = <<>> THEN [ok |-> FALSE, num |-> 0]
    ELSE LET n == Atoi(TrimSpace(input))
         IN  IF ~n.ok THEN [ok |-> FALSE, num |-> 0]
             ELSE IF n.num < 1 \/ n.num > maxPRs THEN [ok |-> FALSE, num |-> 0]
             ELSE [ok |-> TRUE, num |-> n.num]

\* Runner.displayPRDetails that only warns of a conflict.
displayPRDetailsOk_OnlyWarns(pr) == TRUE

\* Runner.displayPRDetails returns an error for a pull request in conflict.
displayPRDetailsOk(pr) == pr.MergeableState # MergeableStateConflicting

\* The answer confirmMerge and askContinue take for a yes.
IsYes(input) == ToLower(TrimSpace(input)) \in {<<"y">>, <<"y", "e", "s">>}

\* Runner.executeMerge: what it can return and the remote calls it made.
executeMerge(pr) ==
    IF ~ParseRepositoryOk(pr.Repository)
    THEN {Result(FALSE, Msg("Invalid repository format: %v", 0), {})}
    ELSE {Result(FALSE, Msg("Merge failed: %v", 0), {"MergePullRequest"}),
          Result(FALSE, Msg("merge unsuccessful: %s", 0), {"MergePullRequest"}),
          Result(TRUE, NoMessage, {"MergePullRequest"})}

\* The lines the user types, and the end of the input.
RunnerTexts ==
    {<<"q">>, <<" ", "Q", " ">>, <<>>, <<" ">>, <<"x">>, <<"0">>, <<"1">>, <<" ", "2">>,
     <<"+", "2">>, <<"3">>, <<"4">>, <<"-", "1">>, <<"1", "0">>, <<"1", " ", "2">>,
     <<"y">>, <<"Y", "E", "S">>, <<"y", "e", "s", " ">>, <<"n">>, <<"y", "e">>}

RunnerLines ==
    {[eof |-> FALSE, text |-> t] : t \in RunnerTexts} \cup {[eof |-> TRUE, text |-> <<>>]}

\* Run at the prompt pc, having read input and chosen pr (<<>>: none) and
\* answer in this round, after calls calls of the merge endpoint; err is
\* what Run returned.
RunnerAt(pc, input, pr, answer, calls, err) ==
    [pc |-> pc, input |-> input, pr |-> pr, answer |-> answer, calls |-> calls, err |-> err]

\* The loop is back at the selection prompt.
RunnerContinue(calls) == RunnerAt("select", <<>>, <<>>, <<>>, calls, "")

RunnerReturn(calls, err) == RunnerAt("exit", <<>>, <<>>, <<>>, calls, err)

RunnerFrame ==
    UNCHANGED <<heap, prs, filtered, cursor, query, modeVars, flagVars, sizeVars, message,
                messageType, done, cmds, catalog>>

\* Run up to its first prompt.
Runner_Run ==
    /\ runner.pc = "start"
    /\ runner' = IF prs.len = 0 THEN RunnerReturn(0, "no PRs available to merge")
                                ELSE RunnerContinue(0)
    /\ RunnerFrame

\* Run from the line read at "Enter PR number: " to the next prompt.
Runner_ReadSelection(line) ==
    /\ runner.pc = "select"
    /\ runner' =
         IF line.eof THEN RunnerReturn(runner.calls, "failed to read input: %w")
         ELSE IF ToLower(TrimSpace(line.text)) = <<"q">> THEN RunnerReturn(runner.calls, "")
         ELSE LET selection == parseSelection(line.text, prs.len)
              IN  IF ~selection.ok THEN RunnerContinue(runner.calls)
                  ELSE IF ~displayPRDetailsOk(PR(heap[prs.arr][selection.num]))
                  THEN RunnerContinue(runner.calls)
                  ELSE RunnerAt("confirm", line.text, <<heap[prs.arr][selection.num]>>, <<>>,
                                runner.calls, "")
    /\ RunnerFrame

\* Run from the line read at "Proceed with merge? (y/N): " to the call of
\* executeMerge or back to the selection prompt.
Runner_ConfirmMerge(line) ==
    /\ runner.pc = "confirm"
    /\ runner' =
         IF ~line.eof /\ IsYes(line.text)
         THEN [runner EXCEPT !.pc = "merge", !.answer = line.text]
         ELSE RunnerContinue(runner.calls)
    /\ RunnerFrame

\* executeMerge returns.
Runner_ExecuteMerge ==
    /\ runner.pc = "merge"
    /\ runner.calls < MaxMergeCalls
    /\ \E r \in executeMerge(PR(runner.pr[1])) :
          runner' =
            IF r.success
            THEN RunnerAt("continue", <<>>, <<>>, <<>>, runner.calls + Cardinality(r.calls), "")
            ELSE RunnerContinue(runner.calls + Cardinality(r.calls))
    /\ RunnerFrame

\* Run from the line read at "Merge another PR? (y/N): ".
Runner_AskContinue(line) ==
    /\ runner.pc = "continue"
    /\ runner' =
         IF ~line.eof /\ IsYes(line.text) THEN RunnerContinue(runner.calls)
         ELSE RunnerReturn(runner.calls, "")
    /\ RunnerFrame

\* Run is called with a list of pull requests, in any order, or with none.
RunnerInit ==
    /\ catalog = World1
    /\ \E s \in FetchResultsOf[World1] :
          /\ heap = [id \in {1, 2} |-> IF id = 1 THEN s ELSE <<>>]
          /\ prs = [arr |-> 1, len |-> Len(s)]
          /\ filtered = [arr |-> 1, len |-> Len(s)]
    /\ cursor = 0
    /\ query = <<>>
    /\ searchMode = FALSE
    /\ confirmMode = FALSE
    /\ confirmingPR = <<>>
    /\ confirmRebase = FALSE
    /\ message = NoMessage
    /\ messageType = ""
    /\ width = 80
    /\ height = 24
    /\ merging = FALSE
    /\ refreshing = FALSE
    /\ rebasing = FALSE
    /\ done = FALSE
    /\ cmds = EmptyBag
    /\ runner = RunnerAt("start", <<>>, <<>>, <<>>, 0, "")

RunnerNext ==
    \/ Runner_Run
    \/ \E line \in RunnerLines : Runner_ReadSelection(line)
    \/ \E line \in RunnerLines : Runner_ConfirmMerge(line)
    \/ Runner_ExecuteMerge
    \/ \E line \in RunnerLines : Runner_AskContinue(line)

RunnerSpec == RunnerInit /\ [][RunnerNext]_vars

----------------------------------------------------------------------------
(* The search alone *)

\* The keys typed where only the search is exercised: letters in both cases
\* and the space that separates the fields of the search text.
FilterKeys == {<<"u">>, <<"p">>, <<"P">>, <<"e">>, <<"V">>, <<" ">>}

\* The program right after "/" was pressed on its first screen.
FilterInit ==
    /\ catalog = FilterWorld
    /\ \E s \in FetchResultsOf[FilterWorld] \ {<<>>} :
          /\ heap = [id \in {1, 2} |-> IF id = 1 THEN SortByRepoName(s) ELSE <<>>]
          /\ prs = [arr |-> 1, len |-> Len(s)]
          /\ filtered = [arr |-> 1, len |-> Len(s)]
    /\ cursor = 0
    /\ query = <<>>
    /\ searchMode = TRUE
    /\ confirmMode = FALSE
    /\ confirmingPR = <<>>
    /\ confirmRebase = FALSE
    /\ message = NoMessage
    /\ messageType = ""
    /\ width = 80
    /\ height = 24
    /\ merging = FALSE
    /\ refreshing = FALSE
    /\ rebasing = FALSE
    /\ done = FALSE
    /\ cmds = EmptyBag
    /\ runner = NoRunner

\* The user types a query and deletes from it.
FilterNext ==
    \/ \E key \in FilterKeys : KeyDefaultWithin(key, MaxFilterQueryLen)
    \/ KeyBackspace

FilterSpec == FilterInit /\ [][FilterNext]_vars

----------------------------------------------------------------------------
(* Vocabulary of the properties *)

\* all and visible as the program reads them.
All == Elems(heap, prs)
Visible == Elems(heap, filtered)

IdentsOf(seq) == {Ident(seq[i]) : i \in 1..Len(seq)}

Distinct(seq) == \A i, j \in 1..Len(seq) : i # j => Ident(seq[i]) # Ident(seq[j])

\* seq without the pull request with the identity of k.
Without(seq, k) == SelectSeq(seq, LAMBDA x : Ident(x) # Ident(k))

\* The subsequence of seq a query shows.
Shown(seq, q) == IF q = <<>> THEN seq ELSE SelectSeq(seq, LAMBDA k : Matches(k, q))

\* The merge and rebase commands in flight, and how many they are.
Mutating == InFlight("merge") \cup InFlight("rebase")

NumMutating == BagCardinality([c \in Mutating |-> CopiesIn(c, cmds)])

\* This step is Update consuming the message of command c.
Completes(c) == BagIn(c, cmds) /\ c.pc = "send" /\ CopiesIn(c, cmds') < CopiesIn(c, cmds)

\* This step launches a merge or rebase command.
Dispatches ==
    \E kind \in {"merge", "rebase"} : \E k \in DOMAIN PullRequests :
        CopiesIn(Command(kind, <<k>>), cmds') > CopiesIn(Command(kind, <<k>>), cmds)

----------------------------------------------------------------------------
(* Properties *)

\* C1: when the merge of pull request X completes successfully, X (by
\* repository + number) is in neither all nor visible afterwards and every
\* other item of all and of visible is still there, whatever was processed
\* between the dispatch and the completion.
C1_MergeRemovesItsTarget ==
    [][\A c \in InFlight("merge") :
          Completes(c) /\ c.success =>
              /\ Ident(c.pr[1]) \notin IdentsOf(Elems(heap', prs'))
              /\ Ident(c.pr[1]) \notin IdentsOf(Elems(heap', filtered'))
              /\ IdentsOf(All) \ {Ident(c.pr[1])} \subseteq IdentsOf(Elems(heap', prs'))
              /\ IdentsOf(Visible) \ {Ident(c.pr[1])} \subseteq IdentsOf(Elems(heap', filtered'))]_vars

\* C2: with an empty query, a list of n distinct pull requests and the cursor
\* still on the pull request whose merge was confirmed, a successful merge
\* result leaves all and visible equal to the list without that pull request
\* (n-1 items, each once).
C2_MergeLeavesTheOthersOnce ==
    [][\A c \in InFlight("merge") :
          /\ Completes(c) /\ c.success
          /\ query = <<>> /\ Distinct(All) /\ Visible = All
          /\ cursor < filtered.len /\ Visible[cursor + 1] = c.pr[1]
          => /\ Elems(heap', prs') = Without(All, c.pr[1])
             /\ Elems(heap', filtered') = Without(All, c.pr[1])]_vars

\* C3: the cursor invariant, 0 <= cursor < max(1, len(visible)).
C3_CursorInRange ==
    /\ 0 <= cursor
    /\ cursor < (IF filtered.len >= 1 THEN filtered.len ELSE 1)

\* A filter hides part of the list and the cursor stands on the last visible
\* item, which is not the first.
C3_Witness == query # <<>> /\ filtered.len < prs.len /\ cursor > 0 /\ cursor = filtered.len - 1

\* C4: visible is the order-preserving subsequence of all that matches the
\* query, and is all when the query is empty.
C4_VisibleIsAllFiltered == Visible = Shown(All, query)

\* C5: a merge command for a CONFLICTING pull request calls no remote
\* endpoint, its result is an error, and consuming that result leaves all,
\* visible and the cursor as they were.
C5_ConflictingMergeRejectedLocally ==
    /\ [](\A c \in InFlight("merge") :
            PR(c.pr[1]).MergeableState = MergeableStateConflicting =>
                c.calls = {} /\ (c.pc = "send" => ~c.success))
    /\ [][\A c \in InFlight("merge") :
            Completes(c) /\ PR(c.pr[1]).MergeableState = MergeableStateConflicting =>
                /\ messageType' = "error"
                /\ Elems(heap', prs') = All
                /\ Elems(heap', filtered') = Visible
                /\ cursor' = cursor]_vars

\* The result of a merge command for a CONFLICTING pull request has been
\* consumed: the status line shows the rejection.
C5_Witness ==
    /\ message.fmt = "PR #%d has conflicts and cannot be merged"
    /\ messageType = "error"
    /\ ~merging
    /\ InFlight("merge") = {}

\* C6: at most one refresh command is in flight.
C6_OneRefreshInFlight == RefreshesInFlight <= 1

\* C7: a successful merge result whose pull request is no longer in all is
\* dropped: all, visible and the cursor stay as they are.
C7_StaleMergeResultDropped ==
    [][\A c \in InFlight("merge") :
          Completes(c) /\ c.success /\ Ident(c.pr[1]) \notin IdentsOf(All) =>
              /\ Elems(heap', prs') = All
              /\ Elems(heap', filtered') = Visible
              /\ cursor' = cursor]_vars

\* C8: at most one merge or rebase command is in flight, merging is true
\* exactly while a merge command is in flight and rebasing exactly while a
\* rebase command is.
C8_OneMutatingCommand ==
    /\ NumMutating <= 1
    /\ merging <=> InFlight("merge") # {}
    /\ rebasing <=> InFlight("rebase") # {}

\* The modal is open again on the pull request whose merge is in flight.
C8_Witness ==
    /\ merging /\ confirmMode /\ ~confirmRebase
    /\ \E c \in InFlight("merge") : confirmingPR = c.pr

\* C9 as claimed: while a merge or rebase of X is pending, y/enter in the
\* modal of another pull request Y dispatches the action for Y.
C9_DistinctTargetsDispatch ==
    \A c \in Mutating :
        ~done /\ confirmMode /\ confirmingPR # <<>> /\ confirmingPR # c.pr =>
            ENABLED (KeyEnterY /\ Dispatches)

\* C9 as the code has it: while a merge or rebase is pending no step launches
\* another merge or rebase, for any pull request, and y/enter in the modal of
\* another pull request changes nothing: the modal stays open.
C9_NoDispatchWhilePending ==
    /\ [][NumMutating > 0 => ~Dispatches]_vars
    /\ [](\A c \in Mutating :
            ~done /\ confirmMode /\ confirmingPR # <<>> /\ confirmingPR # c.pr =>
                ~ENABLED (KeyEnterY /\ vars' # vars))

\* The modal of one pull request is open while a command for another is in flight.
C9_Witness ==
    \E c \in Mutating : ~done /\ confirmMode /\ confirmingPR # <<>> /\ confirmingPR # c.pr

\* The selected item has a merge or rebase in flight.
SelectedPending ==
    /\ cursor < filtered.len
    /\ \E c \in Mutating : Ident(c.pr[1]) = Ident(Visible[cursor + 1])

\* C10 as claimed: the modal never opens while a merge or rebase of the
\* selected item is in flight.
C10_NoModalWhilePending == [][~confirmMode /\ confirmMode' => ~SelectedPending]_vars

\* C10 as the code has it: in Browse mode enter/y opens the modal on the
\* selected item whenever there is one, pending operation or not.
C10_ModalOpensOnSelection ==
    ~done /\ ~searchMode /\ ~confirmMode /\ cursor < filtered.len =>
        ENABLED (KeyEnterY /\ confirmMode' /\ confirmingPR' = <<Visible[cursor + 1]>>)

\* The modal is open on the pull request whose rebase is in flight.
C10_Witness == confirmMode /\ rebasing /\ \E c \in InFlight("rebase") : confirmingPR = c.pr

\* The command the open modal stands for: a rebase or a merge of its target.
ChosenCommand == Command(IF confirmRebase THEN "rebase" ELSE "merge", confirmingPR)

\* C11 as claimed: in Confirm mode y/enter always dispatches the chosen
\* action for the confirmed target and returns to Browse mode.
C11_ConfirmAlwaysDispatches ==
    ~done /\ confirmMode =>
        ENABLED (KeyEnterY /\ cmds' = AddCmd(cmds, ChosenCommand) /\ ~confirmMode' /\ ~searchMode')

\* C11 as the code has it: in Confirm mode y/enter dispatches the chosen
\* action for the confirmed target and returns to Browse mode when no merge
\* or rebase is in flight; while one is in flight it changes nothing and the
\* modal stays open.
C11_ConfirmDispatchesWhenIdle ==
    ~done /\ confirmMode =>
        IF Mutating = {}
        THEN /\ ENABLED KeyEnterY
             /\ ~ENABLED (KeyEnterY /\ ~(/\ cmds' = AddCmd(cmds, ChosenCommand)
                                         /\ ~confirmMode' /\ ~searchMode'
                                         /\ confirmingPR' = <<>>))
        ELSE ~ENABLED (KeyEnterY /\ vars' # vars)

\* A rebase has just been dispatched from the modal: back in Browse mode.
C11_Witness ==
    /\ ~confirmMode /\ ~searchMode /\ rebasing
    /\ \E c \in InFlight("rebase") : c.pc = "run"
    /\ message.fmt = "Triggering rebase..."

\* The results the closure of a merge or rebase command can return.
ResultsOf(c) == IF c.kind = "merge" THEN mergePR(PR(c.pr[1])) ELSE rebasePR(PR(c.pr[1]))

MergeFailures == {"Merge failed: %v", "Merge unsuccessful: %s"}

\* C13: a merge that fails (remote error, or merged == false) leaves all,
\* visible, the cursor and the query as they were, shows its message as an
\* error and clears merging; the same pull request can then be confirmed and
\* merged again: y/enter in its modal dispatches a new merge command.
C13_FailedMergeLeavesListForRetry ==
    /\ [][\A c \in InFlight("merge") :
            Completes(c) /\ ~c.success /\ c.message.fmt \in MergeFailures =>
                /\ Elems(heap', prs') = All
                /\ Elems(heap', filtered') = Visible
                /\ cursor' = cursor
                /\ query' = query
                /\ message' = c.message
                /\ messageType' = "error"
                /\ ~merging']_vars
    /\ [](/\ message.fmt \in MergeFailures /\ messageType = "error"
          /\ ~done /\ confirmMode /\ ~confirmRebase
          => ENABLED (KeyEnterY /\ merging'
                      /\ cmds' = AddCmd(cmds, Command("merge", confirmingPR))))

\* The merge of o/b#2 has failed remotely; it is still listed and its modal
\* is open again.
C13_Witness ==
    /\ message.fmt = "Merge failed: %v" /\ messageType = "error"
    /\ ~merging /\ confirmMode /\ ~confirmRebase
    /\ confirmingPR = <<2>> /\ \E i \in 1..Len(Visible) : Visible[i] = 2

\* This step is Update taking the message of a refresh command.
RefreshCompletes == RefreshesInFlight' < RefreshesInFlight

\* C14: a refresh that completes with an error leaves all, visible, the
\* cursor and the query exactly as they were; only the status message and the
\* refreshing flag change.
C14_FailedRefreshLeavesList ==
    [][RefreshCompletes /\ message'.fmt = "Failed to refresh PRs: %v" =>
          /\ Elems(heap', prs') = All
          /\ Elems(heap', filtered') = Visible
          /\ UNCHANGED <<heap, prs, filtered, cursor, query>>
          /\ UNCHANGED <<modeVars, merging, rebasing, sizeVars, done>>
          /\ messageType' = "error"
          /\ ~refreshing']_vars

\* A refresh has failed while a filter was on and the cursor off the first item.
C14_Witness ==
    /\ message.fmt = "Failed to refresh PRs: %v" /\ messageType = "error"
    /\ ~refreshing /\ query # <<>> /\ cursor > 0 /\ filtered.len < prs.len

\* C15: no completion event (merge, rebase or refresh, success or failure)
\* ends the loop; done becomes true only on ctrl+c, or on q/esc in Browse
\* mode; and while an error is shown and the user has not quit, keys are
\* still handled.
C15_OnlyQuitKeysEndTheLoop ==
    /\ [][(\E c \in Mutating : Completes(c)) \/ RefreshCompletes => ~done']_vars
    /\ [][~done /\ done' => KeyCtrlC \/ (KeyQuitEsc /\ ~searchMode /\ ~confirmMode)]_vars
    /\ [](messageType = "error" /\ ~done =>
            /\ ENABLED KeyUp /\ ENABLED KeyDown /\ ENABLED KeySlash /\ ENABLED KeyN
            /\ ENABLED KeyEnterY /\ ENABLED KeyBackspace /\ ENABLED KeyQuitEsc
            /\ ENABLED KeyCtrlC)

\* A failed rebase is on the status line and the loop runs.
C15_Witness ==
    ~done /\ messageType = "error" /\ message.fmt = "Failed to post rebase comment: %v"

\* C16: the modes are well formed: searchMode and confirmMode are never both
\* true, confirmMode is true exactly when confirmingPR is set, and
\* confirmRebase is true only while confirmMode is.
C16_ModesWellFormed ==
    /\ ~(searchMode /\ confirmMode)
    /\ confirmMode <=> confirmingPR # <<>>
    /\ confirmRebase => confirmMode

\* The rebase modal of o/a#1 is open while a merge is in flight.
C16_Witness == confirmMode /\ confirmRebase /\ ~searchMode /\ merging /\ confirmingPR = <<1>>

\* This step appends the character ch to the query, shows what the new query
\* matches and stays in Search mode.
Appends(ch) ==
    /\ query' = query \o <<ch>>
    /\ Elems(heap', filtered') = Shown(Elems(heap', prs'), query')
    /\ searchMode' /\ ~confirmMode'

\* C17: in Search mode every printable single-character key, y, n, q, j, k,
\* r, o and / among them, is appended to the query and the filter is run
\* again; none changes the mode or clears the query.
C17_SearchModeKeysAppend ==
    ~done /\ searchMode /\ ~confirmMode /\ Len(query) < MaxQueryLen =>
        /\ \A key \in {k \in DefaultKeys : Len(k) = 1} : ENABLED (KeyDefault(key) /\ Appends(key[1]))
        /\ ENABLED (KeyEnterY /\ Appends("y"))
        /\ ENABLED (KeyN /\ Appends("n"))
        /\ ENABLED (KeyQuitEsc /\ Appends("q"))
        /\ ENABLED (KeyDown /\ Appends("j"))
        /\ ENABLED (KeyUp /\ Appends("k"))
        /\ ENABLED (KeyR /\ Appends("r"))
        /\ ENABLED (KeyO(FALSE) /\ Appends("o"))
        /\ ENABLED (KeySlash /\ Appends("/"))

\* The smaller of two numbers.
Min(a, b) == IF a <= b THEN a ELSE b

\* seq and other hold the same pull requests, in some order.
SameItems(seq, other) ==
    /\ Len(seq) = Len(other)
    /\ {seq[i] : i \in 1..Len(seq)} = {other[i] : i \in 1..Len(other)}

\* C18: a successful refresh replaces all with the fetched items, recomputes
\* visible from the current query and clamps the cursor: the new cursor is
\* min(previous cursor, len(visible) - 1), or 0 when visible is empty, with
\* an empty query as with any other.
C18_RefreshClampsCursor ==
    ~done /\ RefreshesInFlight > 0 =>
        \A fetched \in FetchResultsOf[catalog] :
            /\ ENABLED Update_refreshPRsMsg(fetched, FALSE)
            /\ ~ENABLED (/\ Update_refreshPRsMsg(fetched, FALSE)
                         /\ ~(/\ SameItems(Elems(heap', prs'), fetched)
                              /\ Elems(heap', filtered') = Shown(Elems(heap', prs'), query')
                              /\ query' = query
                              /\ cursor' = IF filtered'.len = 0 THEN 0
                                           ELSE Min(cursor, filtered'.len - 1)))

\* C19: when the list is fetched again the selection is kept: if the pull
\* request selected before a successful refresh is still in visible
\* afterwards, the cursor points at it, also while a filter is on.
C19_RefreshKeepsSelection ==
    ~done /\ RefreshesInFlight > 0 /\ cursor < filtered.len =>
        \A fetched \in FetchResultsOf[catalog] :
            ~ENABLED (/\ Update_refreshPRsMsg(fetched, FALSE)
                      /\ Ident(Visible[cursor + 1]) \in IdentsOf(Elems(heap', filtered'))
                      /\ Ident(Elems(heap', filtered')[cursor' + 1]) # Ident(Visible[cursor + 1]))

\* C20: when a successful merge completion removes the selected item at
\* index i, the cursor afterwards is a valid index: it stays at i, now on the
\* pull request that followed, if one did; it moves to the previous pull
\* request if the removed one was last; it is 0 if the list became empty.
C20_CursorAfterRemoval ==
    [][\A c \in InFlight("merge") :
          Completes(c) /\ c.success /\ cursor < filtered.len =>
              LET i == cursor
                  after == Elems(heap', filtered')
              IN  /\ Len(after) = Len(Visible) - 1
                  /\ IF i + 1 < Len(Visible)
                     THEN cursor' = i /\ after[cursor' + 1] = Visible[i + 2]
                     ELSE IF i > 0
                     THEN cursor' = i - 1 /\ after[cursor' + 1] = Visible[i]
                     ELSE cursor' = 0 /\ after = <<>>]_vars

\* A merge has just removed the last of several visible items: the cursor
\* stands on the new last item and the refresh that follows is in flight.
C20_Witness ==
    /\ message.fmt = "Refreshing PRs..." /\ ~merging /\ refreshing
    /\ filtered.len >= 1 /\ cursor = filtered.len - 1 /\ cursor > 0

\* seq is in ascending order of repository short name.
SortedByRepoName(seq) ==
    \A i, j \in 1..Len(seq) : i < j => ~StrLess(RepoNameOf[seq[j]], RepoNameOf[seq[i]])

\* C21: started on a list sorted by repository short name, all and visible
\* are sorted ascending by repository short name in every reachable state,
\* whatever order a fetch returned.
C21_ListsStaySorted == SortedByRepoName(All) /\ SortedByRepoName(Visible)

\* A refresh has installed all three pull requests.
C21_Witness ==
    /\ message.fmt = "Refreshed: %d PRs loaded" /\ message.arg = 3
    /\ prs.len = 3 /\ ~refreshing

\* The pull requests of a list, as a set.
Items(seq) == {seq[i] : i \in 1..Len(seq)}

\* What filterPRs shows of the current all under query q.
Filtered(q) ==
    LET r == filterPRs(heap, prs, q, cursor)
    IN  Elems(r.heap, r.filtered)

\* C22: monotonic narrowing: for the all of any state and queries q1, q2
\* with q1 a prefix of q2, every item visible under q2 is visible under q1.
C22_MonotonicNarrowing ==
    /\ Visible = Filtered(query)
    /\ \A n \in 0..Len(query) : Items(Filtered(query)) \subseteq Items(Filtered(SubSeq(query, 1, n)))

\* Each character typed has narrowed the list, and something is left.
C22_Witness ==
    /\ Len(query) = 2
    /\ Visible # <<>>
    /\ Len(Visible) < Len(Filtered(SubSeq(query, 1, 1)))
    /\ Len(Filtered(SubSeq(query, 1, 1))) < Len(All)

\* The letters the model has in both cases.
CasePairs == {<<"D", "d">>, <<"V", "v">>, <<"U", "u">>, <<"P", "p">>}

\* The same character, or the same letter in the other case.
SameLetter(a, b) == a = b \/ <<a, b>> \in CasePairs \/ <<b, a>> \in CasePairs

\* text contains q as a contiguous substring, ignoring case.
ContainsIgnoringCase(text, q) ==
    \E k \in 0..(Len(text) - Len(q)) : \A i \in 1..Len(q) : SameLetter(text[k + i], q[i])

\* The composite string of a pull request: repository short name, title,
\* bot display name, joined labels and version, separated by spaces.
Composite(pr) ==
    RepoName(pr) \o <<" ">> \o pr.Title \o <<" ">> \o DisplayName(pr.BotType) \o <<" ">>
        \o Join(pr.Labels, <<" ">>) \o <<" ">> \o pr.Version

\* q with every letter in its other case.
SwapCase(q) ==
    [i \in 1..Len(q) |->
        IF \E pair \in CasePairs : q[i] \in {pair[1], pair[2]}
        THEN LET pair == CHOOSE pr \in CasePairs : q[i] \in {pr[1], pr[2]}
             IN  IF q[i] = pair[1] THEN pair[2] ELSE pair[1]
        ELSE q[i]]

\* Two pull requests whose composite strings differ in letter case only.
CaseVariants(j, k) ==
    /\ Len(Composite(PR(j))) = Len(Composite(PR(k)))
    /\ \A i \in 1..Len(Composite(PR(j))) : SameLetter(Composite(PR(j))[i], Composite(PR(k))[i])

\* C23: for a non-empty query q, visible is exactly the items of all whose
\* composite string contains q as a contiguous substring ignoring case, in
\* the order of all; the letter case of q and of the item fields makes no
\* difference.
C23_FilterIsCaseInsensitiveSubstring ==
    query # <<>> =>
        /\ Visible = SelectSeq(All, LAMBDA k : ContainsIgnoringCase(Composite(PR(k)), query))
        /\ Filtered(SwapCase(query)) = Visible
        /\ \A j, k \in Items(All) : CaseVariants(j, k) => (j \in Items(Visible) <=> k \in Items(Visible))

\* A query in capitals shows the two pull requests that differ in case only
\* and hides another.
C23_Witness ==
    /\ query = <<"P", " ">>
    /\ {2, 4} \subseteq Items(Visible)
    /\ Len(Visible) < Len(All)

\* The polls for target that are armed after this step.
PollsAfter(target) == {p \in BagToSet(cmds') : p.kind = "poll" /\ p.pr = target}

\* C24: when a merge or rebase completes successfully a poll is armed for
\* its target, first due after 20 seconds for a rebase and after 2 seconds
\* for a merge; when it fails no poll is armed.
C24_SuccessArmsPoll ==
    [][\A c \in Mutating :
          Completes(c) =>
              IF c.success
              THEN \E p \in PollsAfter(Ident(c.pr[1])) :
                      /\ p.attempt = 1
                      /\ p.delay = IF c.kind = "rebase" THEN PollDelayAfterRebase
                                                         ELSE PollDelayAfterMerge
              ELSE PollsAfter(Ident(c.pr[1])) = PollsOf(Ident(c.pr[1]))]_vars

\* The pull request a poll is for is listed.
Listed(target) == target \in IdentsOf(All)

\* seq with the pull requests of the target's identity replaced by item.
Refreshed(seq, target, item) ==
    [i \in 1..Len(seq) |-> IF Ident(seq[i]) = target THEN item ELSE seq[i]]

\* This step ends the poll p with the re-fetched item in the place of the
\* old one, in all and in visible.
EndsWithItem(p, item) ==
    /\ PollsAfter(p.pr) = {}
    /\ Elems(heap', prs') = Refreshed(All, p.pr, item)
    /\ Elems(heap', filtered') = Refreshed(Visible, p.pr, item)

\* This step leaves the lists alone and the poll p scheduled for its next
\* attempt, or ends it when p was at its last attempt.
StaysOrExhausts(p) ==
    /\ Elems(heap', prs') = All
    /\ Elems(heap', filtered') = Visible
    /\ IF p.attempt < PollMaxAttempts
       THEN \E n \in PollsAfter(p.pr) : PollsAfter(p.pr) = {n} /\ n.attempt = p.attempt + 1
       ELSE PollsAfter(p.pr) = {}

ScheduledDelay(d, attempt) == Min(d * 2 ^ (attempt - 1), PollDelayCeiling)

KeepsPolls == {p \in BagToSet(cmds') : p.kind = "poll"} = Polls

C28_RebaseOnlyForSupportingBots ==
    \A c \in InFlight("rebase") :
        LET bot == PR(c.pr[1]).BotType
        IN  /\ bot \in {BotRenovate, BotDependabot}
            /\ bot = BotRenovate => c.calls \subseteq {"UpdatePullRequestBody"}
            /\ bot = BotDependabot =>
                  c.calls \subseteq {"CreateComment"} /\ RebaseCommand(bot) = "@dependabot rebase"
            /\ c.pc = "send" /\ c.success => c.calls # {}

\* The rebase of the renovate pull request has gone through the body update
\* and its result waits for the loop.
C28_Witness ==
    \E c \in InFlight("rebase") :
        /\ PR(c.pr[1]).BotType = BotRenovate
        /\ c.pc = "send" /\ c.success /\ c.calls = {"UpdatePullRequestBody"}

\* The pull request of command c is rebased by checkbox and its body has no
\* unchecked rebase checkbox.
LacksCheckbox(c) ==
    /\ UsesCheckboxRebase(PR(c.pr[1]).BotType)
    /\ ~CheckRenovateRebaseCheckboxOk(PR(c.pr[1]).Body)

\* C29: a checkbox rebase of a pull request whose body has no unchecked
\* rebase checkbox fails before any request to update the pull request is
\* made, and its completion is an error that leaves all, visible and the
\* cursor as they were.
C29_MissingCheckboxFailsLocally ==
    /\ [](\A c \in InFlight("rebase") :
            LacksCheckbox(c) => c.calls = {} /\ (c.pc = "send" => ~c.success))
    /\ [][\A c \in InFlight("rebase") :
            Completes(c) /\ LacksCheckbox(c) =>
                /\ messageType' = "error"
                /\ message'.fmt = "Failed to trigger rebase: %v"
                /\ ~rebasing'
                /\ Elems(heap', prs') = All
                /\ Elems(heap', filtered') = Visible
                /\ cursor' = cursor]_vars

\* The rebase of the pull request with the checked checkbox has failed and
\* its error is on the status line; the pull request is still listed.
C29_Witness ==
    /\ message.fmt = "Failed to trigger rebase: %v" /\ messageType = "error"
    /\ ~rebasing /\ InFlight("rebase") = {}
    /\ 6 \in Items(Visible)

\* This step leaves the modal for Browse mode and touches nothing else: no
\* command is dispatched, the lists, the cursor, the query and the in-flight
\* flags stay, and the program goes on.
CancelsModal ==
    /\ ~confirmMode' /\ ~searchMode' /\ confirmingPR' = <<>> /\ ~confirmRebase'
    /\ cmds' = cmds
    /\ Elems(heap', prs') = All /\ Elems(heap', filtered') = Visible
    /\ UNCHANGED <<cursor, query, merging, rebasing, refreshing, done>>

\* C30: in Confirm mode n, and escape, return to Browse with no side effect:
\* no command is dispatched and all, visible, the cursor, the query and the
\* in-flight flags are unchanged.
C30_CancelHasNoSideEffect ==
    ~done /\ confirmMode =>
        /\ ENABLED KeyN /\ ~ENABLED (KeyN /\ ~CancelsModal)
        /\ ENABLED KeyQuitEsc /\ ~ENABLED (KeyQuitEsc /\ ~CancelsModal)

\* The modal is open over a filtered list with a refresh in flight.
C30_Witness ==
    /\ ~done /\ confirmMode /\ refreshing /\ query # <<>> /\ cursor > 0

\* The program is in Search mode, Confirm mode or, with neither, Browse mode.
InSearch == searchMode /\ ~confirmMode

InBrowse == ~searchMode /\ ~confirmMode

\* This step ends in Browse mode with the same pull requests in all and
\* nothing dispatched.
ToBrowse ==
    /\ ~searchMode' /\ ~confirmMode' /\ ~done'
    /\ Elems(heap', prs') = All
    /\ cmds' = cmds

\* C31: in Search mode enter returns to Browse and leaves the query, visible
\* and the cursor as they are; escape returns to Browse with the query
\* cleared and visible equal to all.
C31_EnterCommitsEscapeClears ==
    ~done /\ InSearch =>
        /\ ENABLED KeyEnterY
        /\ ~ENABLED (KeyEnterY /\ ~(/\ ToBrowse
                                    /\ query' = query
                                    /\ Elems(heap', filtered') = Visible
                                    /\ cursor' = cursor))
        /\ ENABLED KeyQuitEsc
        /\ ~ENABLED (KeyQuitEsc /\ ~(/\ ToBrowse
                                     /\ query' = <<>>
                                     /\ Elems(heap', filtered') = All))

\* Search mode with a query that hides a pull request.
C31_Witness ==
    /\ ~done /\ InSearch
    /\ query # <<>> /\ Len(Visible) < Len(All) /\ Len(Visible) > 0

InConfirm == confirmMode

\* Update takes a key press.
KeyMsg ==
    \/ KeyCtrlC
    \/ KeyQuitEsc
    \/ KeySlash
    \/ KeyR
    \/ \E failed \in BOOLEAN : KeyO(failed)
    \/ KeyEnterY
    \/ KeyN
    \/ KeyUp
    \/ KeyDown
    \/ KeyBackspace
    \/ \E key \in DefaultKeys : KeyDefault(key)

\* A key press no case of Update names, with a name of several characters.
KeyUnnamedLong == \E key \in DefaultKeys : Len(key) > 1 /\ KeyDefault(key)

\* The key presses outside the accepted set of Browse mode, of Search mode
\* (the arrows and the keys that are not printable) and of Confirm mode.
KeyOutsideBrowse == KeyN \/ KeyBackspace \/ \E key \in DefaultKeys : KeyDefault(key)

KeyOutsideSearch == KeyUp \/ KeyDown \/ KeyUnnamedLong

KeyOutsideConfirm ==
    \/ KeyUp
    \/ KeyDown
    \/ KeySlash
    \/ KeyR
    \/ \E failed \in BOOLEAN : KeyO(failed)
    \/ KeyBackspace
    \/ \E key \in DefaultKeys : KeyDefault(key)

\* This step changes nothing but the status message.
OnlyMessageMayChange ==
    UNCHANGED <<heap, prs, filtered, cursor, query, modeVars, flagVars, sizeVars, done,
                cmds, catalog, runner>>

\* This step leaves no status message displayed.
MessageGone ==
    /\ message' = NoMessage
    /\ messageType' = IF message.fmt # "" THEN "" ELSE messageType

\* C32: a key outside the accepted set of the active mode changes nothing,
\* except that outside Confirm mode it clears a displayed status message; in
\* Confirm mode no key press at all clears the status message.
C32_OtherKeysOnlyClearMessage ==
    ~done =>
        /\ InBrowse =>
              /\ ENABLED KeyOutsideBrowse
              /\ ~ENABLED (KeyOutsideBrowse /\ ~(OnlyMessageMayChange /\ MessageGone))
        /\ InSearch =>
              /\ ENABLED KeyOutsideSearch
              /\ ~ENABLED (KeyOutsideSearch /\ ~(OnlyMessageMayChange /\ MessageGone))
        /\ InConfirm =>
              /\ ENABLED KeyOutsideConfirm
              /\ ~ENABLED (KeyOutsideConfirm /\ ~UNCHANGED vars)
              /\ message.fmt # "" => ~ENABLED (KeyMsg /\ message'.fmt = "")

\* The result of a merge has arrived while the modal was open again: its
\* message is displayed in Confirm mode.
C32_Witness ==
    /\ ~done /\ InConfirm
    /\ message.fmt = "Merge failed: %v" /\ messageType = "error"

\* i clamped to the rows of visible (to 0 when there is none).
ClampToRows(i) ==
    IF i < 0 \/ Len(Visible) = 0 THEN 0
    ELSE IF i > Len(Visible) - 1 THEN Len(Visible) - 1 ELSE i

\* C33: in Browse mode up/k puts the cursor at cursor - 1 and down/j at
\* cursor + 1, clamped to [0, len(visible) - 1]; in Search and Confirm mode
\* these keys leave the cursor where it is.
C33_ArrowsMoveByOneClamped ==
    ~done =>
        /\ ENABLED KeyUp /\ ENABLED KeyDown
        /\ IF InBrowse
           THEN /\ ~ENABLED (KeyUp /\ cursor' # ClampToRows(cursor - 1))
                /\ ~ENABLED (KeyDown /\ cursor' # ClampToRows(cursor + 1))
           ELSE /\ ~ENABLED (KeyUp /\ cursor' # cursor)
                /\ ~ENABLED (KeyDown /\ cursor' # cursor)

\* Browse mode with the cursor on the last of several rows.
C33_Witness ==
    /\ ~done /\ InBrowse
    /\ cursor = Len(Visible) - 1 /\ cursor > 0

\* C34: ctrl+c ends the loop from every mode, whatever is in flight; q and
\* escape end it from Browse mode only: in Confirm mode they close the modal
\* and in Search mode they leave Search mode, and the loop goes on.
C34_QuitKeys ==
    ~done =>
        /\ ENABLED KeyCtrlC /\ ~ENABLED (KeyCtrlC /\ ~done')
        /\ ENABLED KeyQuitEsc
        /\ IF InBrowse
           THEN ~ENABLED (KeyQuitEsc /\ ~done')
           ELSE ~ENABLED (KeyQuitEsc /\ ~(~done' /\ InBrowse'))

\* The program has quit with a merge still in flight.
C34_Witness ==
    /\ done
    /\ \E c \in InFlight("merge") : c.pc = "run"

\* This step launches a refresh command.
DispatchesRefresh == RefreshesInFlight' > RefreshesInFlight

\* C35: in Browse mode r dispatches a refresh whenever no refresh is
\* pending, also while a merge or rebase is in flight, and dispatches none
\* while a refresh is pending.
C35_RefreshUnlessPending ==
    ~done /\ InBrowse =>
        IF RefreshesInFlight = 0
        THEN ENABLED (KeyR /\ DispatchesRefresh)
        ELSE ~ENABLED (KeyR /\ DispatchesRefresh)

\* C36: the completion of a successful merge dispatches one refresh and sets
\* refreshing, the completion of a failed merge dispatches nothing and
\* leaves refreshing alone; refreshing falls only when the completion of a
\* refresh is applied, and with a fetch that returns it does fall (unless the
\* user quits first).
C36_MergeSuccessRefreshes ==
    /\ [][\A c \in InFlight("merge") :
            Completes(c) =>
                IF c.success
                THEN /\ RefreshesInFlight' = RefreshesInFlight + 1
                     /\ refreshing'
                     /\ ~Dispatches
                ELSE /\ cmds' = DelCmd(cmds, c)
                     /\ refreshing' = refreshing]_vars
    /\ [][refreshing /\ ~refreshing' => RefreshCompletes]_vars
    /\ refreshing ~> (~refreshing \/ done)

\* The refresh a successful merge dispatched is in flight: its progress
\* message came up while the modal was open, where r dispatches nothing.
C36_Witness ==
    /\ confirmMode /\ refreshing /\ ~merging
    /\ RefreshesInFlight = 1
    /\ message.fmt = "Refreshing PRs..."

\* This step dispatches one merge or rebase command for the pull request
\* the modal holds.
DispatchesForConfirmed ==
    \E kind \in {"merge", "rebase"} : cmds' = AddCmd(cmds, Command(kind, confirmingPR))

\* C37: the modal holds the pull request that was under the cursor when it
\* was opened, keeps it for as long as it is open whatever a refresh does to
\* the list and the cursor, and the command dispatched on confirmation is
\* for that pull request.
C37_DispatchTargetsConfirmed ==
    /\ [](~done /\ confirmMode /\ CanDispatch =>
            ENABLED KeyEnterY /\ ~ENABLED (KeyEnterY /\ ~DispatchesForConfirmed))
    /\ [][~confirmMode /\ confirmMode' =>
            cursor < Len(Visible) /\ confirmingPR' = <<Visible[cursor + 1]>>]_vars
    /\ [][confirmMode /\ confirmMode' => confirmingPR' = confirmingPR]_vars
    /\ [][Dispatches => confirmMode /\ DispatchesForConfirmed]_vars

\* The modal is open for a pull request that a refresh has taken off the
\* list, and the confirmation can be given.
C37_Witness ==
    /\ ~done /\ confirmMode /\ CanDispatch
    /\ confirmingPR[1] \notin Items(All)
    /\ message.fmt = "Refreshed: %d PRs loaded"
    /\ Len(Visible) > 0 /\ cursor < Len(Visible)

\* The pull request with key k is in conflict and its bot is one that can
\* be asked to rebase.
ConflictingAndRebaseCapable(k) ==
    /\ PR(k).MergeableState = MergeableStateConflicting
    /\ PR(k).BotType \in {BotRenovate, BotDependabot}

CursorInvariant == cursor >= 0 /\ cursor <= (IF Len(Visible) = 0 THEN 0 ELSE Len(Visible) - 1)

\* C39: with the cursor invariant, at every terminal height the row window
\* [startIdx, endIdx) of View lies within visible, has at most
\* max(5, height - 10) rows and holds the cursor when visible is not empty;
\* View changes no state.
C39_WindowHoldsCursor ==
    CursorInvariant =>
        LET w == ViewWindow(cursor, Len(Visible), height)
        IN  /\ 0 <= w.startIdx /\ w.startIdx <= w.endIdx /\ w.endIdx <= Len(Visible)
            /\ w.endIdx - w.startIdx <= (IF height - 10 > 5 THEN height - 10 ELSE 5)
            /\ Len(Visible) > 0 => w.startIdx <= cursor /\ cursor < w.endIdx
            /\ ENABLED View /\ ~ENABLED (View /\ ~UNCHANGED vars)

\* The cursor is on the last of six rows in a terminal with room for five:
\* the window is pulled back from the end of the list.
C39_Witness ==
    /\ Len(Visible) = 6 /\ cursor = 5 /\ height = 15
    /\ ViewWindow(cursor, Len(Visible), height) = [startIdx |-> 1, endIdx |-> 6]

\* The row a typed line asks for (0: the line is no row number).
TypedIndex(text) ==
    CASE text = <<"1">> -> 1
      [] text \in {<<" ", "2">>, <<"+", "2">>} -> 2
      [] text = <<"3">> -> 3
      [] text = <<"4">> -> 4
      [] text = <<"1", "0">> -> 10
      [] OTHER -> 0

\* The typed lines that quit and those that answer yes.
QuitTexts == {<<"q">>, <<" ", "Q", " ">>}

YesTexts == {<<"y">>, <<"Y", "E", "S">>, <<"y", "e", "s", " ">>}

\* The line is a selection that can go on to the confirmation: a row of
\* the list whose pull request is not in conflict.
SelectsMergeable(line) ==
    /\ ~line.eof
    /\ TypedIndex(line.text) \in 1..Len(All)
    /\ PR(All[TypedIndex(line.text)]).MergeableState # MergeableStateConflicting

\* This step returns to the selection prompt without a call of the merge
\* endpoint.
BackToSelection == runner'.pc = "select" /\ runner'.calls = runner.calls

\* C40: Runner.Run calls the merge endpoint only for a pull request the
\* user selected by a valid row number, that is not CONFLICTING, and after
\* the confirmation was answered y or yes, and once per confirmation; a line
\* that is no valid row, a pull request in conflict, any other answer to the
\* confirmation and a failed merge each lead back to the selection prompt,
\* with no further call and with the loop running.
C40_MergeOnlyAfterConfirmedSelection ==
    /\ [](runner.pc = "merge" =>
            /\ TypedIndex(runner.input) \in 1..Len(All)
            /\ runner.pr = <<All[TypedIndex(runner.input)]>>
            /\ PR(runner.pr[1]).MergeableState # MergeableStateConflicting
            /\ runner.answer \in YesTexts)
    /\ [][runner'.calls # runner.calls =>
            runner.pc = "merge" /\ runner'.calls = runner.calls + 1]_vars
    /\ [](runner.pc = "select" =>
            \A line \in RunnerLines :
                ~line.eof /\ line.text \notin QuitTexts /\ ~SelectsMergeable(line) =>
                    /\ ENABLED Runner_ReadSelection(line)
                    /\ ~ENABLED (Runner_ReadSelection(line) /\ ~BackToSelection))
    /\ [](runner.pc = "confirm" =>
            \A line \in RunnerLines :
                line.eof \/ line.text \notin YesTexts =>
                    /\ ENABLED Runner_ConfirmMerge(line)
                    /\ ~ENABLED (Runner_ConfirmMerge(line) /\ ~BackToSelection))
    /\ [](runner.pc = "merge" /\ runner.calls < MaxMergeCalls =>
            /\ ENABLED (Runner_ExecuteMerge /\ runner'.pc = "select")
            /\ ~ENABLED (Runner_ExecuteMerge /\ runner'.pc \notin {"select", "continue"})
            /\ ~ENABLED (Runner_ExecuteMerge /\ runner'.calls # runner.calls + 1))

\* After one call of the merge endpoint the user has selected the
\* mergeable pull request again, by "+2", and answered YES.
C40_Witness ==
    /\ runner.pc = "merge" /\ runner.calls = 1
    /\ runner.input = <<"+", "2">> /\ runner.answer = <<"Y", "E", "S">>
    /\ Len(All) = 3

====
